---------------------------- MODULE Spec2Model ----------------------------
(***************************************************************************)
(* Model of the learn-ifc annotation scripts: the fire-rating manager      *)
(* (add_fire_ratings.py), the building fire-safety manager                 *)
(* (add_building_fire_info.py) and the property-set script                 *)
(* (add_property_sets.py), acting on an IFC entity graph, and the two      *)
(* scripts that build such a graph (create_small_house.py,                 *)
(* test_ifc_window.py).                                                    *)
(*                                                                         *)
(* Python strings are tuples of one-character strings, so that `in`,       *)
(* `lower()` and `==` are computed on characters.  Characters outside      *)
(* ASCII are written by code point ("U+00C3").                             *)
(***************************************************************************)
EXTENDS Integers, Sequences, FiniteSets, TLC

(* ---------------- IFC type names and string literals ------------------- *)
IfcProject ==
    <<"I","f","c","P","r","o","j","e","c","t">>
IfcSite ==
    <<"I","f","c","S","i","t","e">>
IfcBuilding ==
    <<"I","f","c","B","u","i","l","d","i","n","g">>
IfcBuildingStorey ==
    <<"I","f","c","B","u","i","l","d","i","n","g","S","t","o","r","e","y">>
IfcWall ==
    <<"I","f","c","W","a","l","l">>
IfcWallStandardCase ==
    <<"I","f","c","W","a","l","l","S","t","a","n","d","a","r","d","C","a","s","e">>
IfcDoor ==
    <<"I","f","c","D","o","o","r">>
IfcSlab ==
    <<"I","f","c","S","l","a","b">>
IfcBeam ==
    <<"I","f","c","B","e","a","m">>
IfcColumn ==
    <<"I","f","c","C","o","l","u","m","n">>
IfcWindow ==
    <<"I","f","c","W","i","n","d","o","w">>
IfcStair ==
    <<"I","f","c","S","t","a","i","r">>
IfcStairFlight ==
    <<"I","f","c","S","t","a","i","r","F","l","i","g","h","t">>
IfcRoof ==
    <<"I","f","c","R","o","o","f">>
Pset_WallCommon ==
    <<"P","s","e","t","_","W","a","l","l","C","o","m","m","o","n">>
Pset_DoorCommon ==
    <<"P","s","e","t","_","D","o","o","r","C","o","m","m","o","n">>
Pset_SlabCommon ==
    <<"P","s","e","t","_","S","l","a","b","C","o","m","m","o","n">>
Pset_BeamCommon ==
    <<"P","s","e","t","_","B","e","a","m","C","o","m","m","o","n">>
Pset_ColumnCommon ==
    <<"P","s","e","t","_","C","o","l","u","m","n","C","o","m","m","o","n">>
Pset_WindowCommon ==
    <<"P","s","e","t","_","W","i","n","d","o","w","C","o","m","m","o","n">>
Pset_StairCommon ==
    <<"P","s","e","t","_","S","t","a","i","r","C","o","m","m","o","n">>
Pset_BuildingCommon ==
    <<"P","s","e","t","_","B","u","i","l","d","i","n","g","C","o","m","m","o","n">>
Pset_ProjectCommon ==
    <<"P","s","e","t","_","P","r","o","j","e","c","t","C","o","m","m","o","n">>
Pset_SiteCommon ==
    <<"P","s","e","t","_","S","i","t","e","C","o","m","m","o","n">>
Pset_BuildingStoreyCommon ==
    <<"P","s","e","t","_","B","u","i","l","d","i","n","g","S","t","o","r","e","y","C","o","m","m","o","n">>
CPset_Custom ==
    <<"C","P","s","e","t","_","C","u","s","t","o","m">>
CPSet_ReUse ==
    <<"C","P","S","e","t","_","R","e","U","s","e">>
LoadSpecs ==
    <<"L","o","a","d","S","p","e","c","s">>
Brandschutz ==
    <<"B","r","a","n","d","s","c","h","u","t","z">>
FireSafety ==
    <<"F","i","r","e","S","a","f","e","t","y">>
FireRating ==
    <<"F","i","r","e","R","a","t","i","n","g">>
IsExternal ==
    <<"I","s","E","x","t","e","r","n","a","l">>
LoadBearing ==
    <<"L","o","a","d","B","e","a","r","i","n","g">>
Graffitischutz ==
    <<"G","r","a","f","f","i","t","i","s","c","h","u","t","z">>
Reference ==
    <<"R","e","f","e","r","e","n","c","e">>
Reusable ==
    <<"R","e","u","s","a","b","l","e">>
MaximumOccupancy ==
    <<"M","a","x","i","m","u","m","O","c","c","u","p","a","n","c","y">>
EscapeRoutesCount ==
    <<"E","s","c","a","p","e","R","o","u","t","e","s","C","o","u","n","t">>
StoreyFireClassification ==
    <<"S","t","o","r","e","y","F","i","r","e","C","l","a","s","s","i","f","i","c","a","t","i","o","n">>
kw_load ==
    <<"l","o","a","d">>
kw_fire ==
    <<"f","i","r","e">>
kw_brand ==
    <<"b","r","a","n","d">>
kw_ground ==
    <<"g","r","o","u","n","d">>
kw_erdgeschoss ==
    <<"e","r","d","g","e","s","c","h","o","s","s">>
kw_roof ==
    <<"r","o","o","f">>
kw_dach ==
    <<"d","a","c","h">>
kw_toit ==
    <<"t","o","i","t">>
kw_Project ==
    <<"P","r","o","j","e","c","t">>
kw_Site ==
    <<"S","i","t","e">>
kw_Building ==
    <<"B","u","i","l","d","i","n","g">>
kw_BuildingStorey ==
    <<"B","u","i","l","d","i","n","g","S","t","o","r","e","y">>
GroundFloor ==
    <<"G","r","o","u","n","d"," ","F","l","o","o","r">>
FirstFloor ==
    <<"F","i","r","s","t"," ","F","l","o","o","r">>
Dachgeschoss ==
    <<"D","a","c","h","g","e","s","c","h","o","s","s">>
Erdgeschoss ==
    <<"E","r","d","g","e","s","c","h","o","s","s">>
Keller ==
    <<"K","e","l","l","e","r">>
Toiture ==
    <<"T","o","i","t","u","r","e">>
ROOF ==
    <<"R","O","O","F">>
IfcOpeningElement ==
    <<"I","f","c","O","p","e","n","i","n","g","E","l","e","m","e","n","t">>
SmallHouseProject ==
    <<"S","m","a","l","l"," ","H","o","u","s","e"," ","P","r","o","j","e","c","t">>
HouseSite ==
    <<"H","o","u","s","e"," ","S","i","t","e">>
SmallHouse ==
    <<"S","m","a","l","l"," ","H","o","u","s","e">>
FrontWall ==
    <<"F","r","o","n","t"," ","W","a","l","l">>
RightWall ==
    <<"R","i","g","h","t"," ","W","a","l","l">>
BackWall ==
    <<"B","a","c","k"," ","W","a","l","l">>
LeftWall ==
    <<"L","e","f","t"," ","W","a","l","l">>
FirstFloorSuffix ==
    <<" ","-"," ","F","i","r","s","t"," ","F","l","o","o","r">>
OpeningSuffix ==
    <<" ","O","p","e","n","i","n","g">>
FrontDoor ==
    <<"F","r","o","n","t"," ","D","o","o","r">>
DoorOpening ==
    <<"D","o","o","r"," ","O","p","e","n","i","n","g">>
TestProject ==
    <<"T","e","s","t"," ","P","r","o","j","e","c","t">>
TestSite ==
    <<"T","e","s","t"," ","S","i","t","e">>
TestBuilding ==
    <<"T","e","s","t"," ","B","u","i","l","d","i","n","g">>
TestWall ==
    <<"T","e","s","t"," ","W","a","l","l">>
TestWindow ==
    <<"T","e","s","t"," ","W","i","n","d","o","w">>
WindowOpening ==
    <<"W","i","n","d","o","w"," ","O","p","e","n","i","n","g">>
\* "rez-de-chaussÃ©e": the literal as it stands in the source file
kw_rez_de_chaussee ==
    <<"r","e","z","-","d","e","-","c","h","a","u","s","s","U+00C3","U+00A9","e">>
\* a storey named "Rez-de-chaussée"
RezDeChaussee ==
    <<"R","e","z","-","d","e","-","c","h","a","u","s","s","U+00E9","e">>
\* Python None in a string-valued attribute
None ==
    <<"<None>">>

(* ---------------- Python string operations ----------------------------- *)
UpperChars ==
    <<"A","B","C","D","E","F","G","H","I","J","K","L","M","N","O","P","Q",
      "R","S","T","U","V","W","X","Y","Z","U+00C3","U+00C9">>
LowerChars ==
    <<"a","b","c","d","e","f","g","h","i","j","k","l","m","n","o","p","q",
      "r","s","t","u","v","w","x","y","z","U+00E3","U+00E9">>
\* str.lower() on one character, as a table
LowerOf ==
    [c \in {UpperChars[i] : i \in 1..Len(UpperChars)} |->
        LowerChars[CHOOSE i \in 1..Len(UpperChars) : UpperChars[i] = c]]
LowerChar(c) ==
    IF c \in DOMAIN LowerOf THEN LowerOf[c] ELSE c
\* str.lower()
lower(s) ==
    [i \in 1..Len(s) |-> LowerChar(s[i])]
\* Python `sub in s` on strings
StrIn(sub, s) ==
    \E i \in 0..(Len(s) - Len(sub)) : SubSeq(s, i + 1, i + Len(sub)) = sub
\* dict.get(key, default)
DictGet(d, key, default) ==
    IF key \in DOMAIN d THEN d[key] ELSE default
\* members of a list, as a set
Range(seq) ==
    {seq[i] : i \in 1..Len(seq)}

(* ---------------- Configuration tables --------------------------------- *)
Languages ==
    {"en", "de", "fr", "ch"}
\* a table with a translated wall set name for the German standard
PSET_NAMES_translated ==
    [l \in Languages |->
        [wall |-> IF l = "de" THEN <<"P","s","e","t","_","W","a","n","d">>
                  ELSE Pset_WallCommon,
         door |-> Pset_DoorCommon,
         slab |-> Pset_SlabCommon, beam |-> Pset_BeamCommon,
         column |-> Pset_ColumnCommon, window |-> Pset_WindowCommon,
         stair |-> Pset_StairCommon, building |-> Pset_BuildingCommon]]
\* FireRatingConfig.PSET_NAMES
PSET_NAMES ==
    [l \in Languages |->
        [wall |-> Pset_WallCommon, door |-> Pset_DoorCommon,
         slab |-> Pset_SlabCommon, beam |-> Pset_BeamCommon,
         column |-> Pset_ColumnCommon, window |-> Pset_WindowCommon,
         stair |-> Pset_StairCommon, building |-> Pset_BuildingCommon]]
\* FireRatingConfig.FIRE_RATING_VALUES
FIRE_RATING_VALUES ==
    [l \in Languages |->
        IF l = "ch"
        THEN [external_wall |-> "REI 90", internal_wall |-> "REI 60",
              loadbearing_wall |-> "REI 90", fire_separation_wall |-> "REI 120",
              external_door |-> "T 30", internal_door |-> "T 30",
              fire_door |-> "T 60", slab |-> "REI 60", beam |-> "R 90",
              column |-> "R 120", roof |-> "REI 30", stair |-> "R 60",
              window |-> "EI 30"]
        ELSE [external_wall |-> "REI 90", internal_wall |-> "REI 60",
              loadbearing_wall |-> "REI 90", fire_separation_wall |-> "REI 120",
              external_door |-> "EI2 30-C5-Sa", internal_door |-> "EI2 30-C5",
              fire_door |-> "EI2 60-C5-S200", slab |-> "REI 60", beam |-> "R 90",
              column |-> "R 120", roof |-> "REI 30", stair |-> "R 60",
              window |-> "EW 30"]]
\* FireRatingConfig.ELEMENT_TYPE_MAP
ELEMENT_TYPE_MAP ==
    (IfcWall :> "wall") @@ (IfcDoor :> "door") @@ (IfcSlab :> "slab") @@
    (IfcBeam :> "beam") @@ (IfcColumn :> "column") @@ (IfcWindow :> "window") @@
    (IfcStair :> "stair") @@ (IfcStairFlight :> "stair")
\* FireSafetyConfig.PSET_NAMES
SAFETY_PSET_NAMES ==
    [l \in Languages |->
        [project |-> Pset_ProjectCommon, site |-> Pset_SiteCommon,
         building |-> Pset_BuildingCommon, storey |-> Pset_BuildingStoreyCommon]]

(* ---------------- The IFC schema --------------------------------------- *)
\* direct supertype among the entity types of the model (IFC4 schema)
Supertype ==
    (IfcWallStandardCase :> IfcWall)
\* entity.is_a(T): T is the type of the entity or one of its supertypes
is_a_type(t, T) ==
    t = T \/ (t \in DOMAIN Supertype /\ Supertype[t] = T)

(* ---------------- State ------------------------------------------------ *)
VARIABLES
    ents,       \* entities by id: [type, Name, Elevation]
    contRels,   \* IfcRelContainedInSpatialStructure instances, in creation order
    psets,      \* IfcPropertySet instances, in creation order
    rels,       \* IfcRelDefinesByProperties instances, in creation order
    aggRels,    \* IfcRelAggregates instances, in creation order
    voidRels,   \* IfcRelVoidsElement instances, in creation order
    fillRels,   \* IfcRelFillsElement instances, in creation order
    ret,        \* the last call: operation, arguments, result, model before it
    ncalls      \* number of calls made

vars ==
    <<ents, contRels, psets, rels, aggRels, voidRels, fillRels, ret, ncalls>>

\* the part of the model the annotation scripts write
Graph ==
    [psets |-> psets, rels |-> rels]

\* model.by_type(T): entities of type T or a subtype, in id order
by_type(T) ==
    SelectSeq([i \in 1..Len(ents) |-> i], LAMBDA i : is_a_type(ents[i].type, T))

\* inverse attribute element.IsDefinedBy in graph g: relation ids, in id order
IsDefinedBy(g, e) ==
    SelectSeq([i \in 1..Len(g.rels) |-> i],
              LAMBDA i : e \in Range(g.rels[i].RelatedObjects))

\* inverse attribute element.ContainedInStructure: relation ids, in id order
ContainedInStructure(e) ==
    SelectSeq([i \in 1..Len(contRels) |-> i],
              LAMBDA i : e \in Range(contRels[i].RelatedElements))

(* ---------------- ModelAnalyzer (add_fire_ratings.py) ------------------ *)
\* the scan matching the keywords against the names of the properties as well
RECURSIVE ScanIsDefinedBy_properties(_, _, _)
ScanIsDefinedBy_properties(g, relIds, keywords) ==
    IF relIds = <<>> THEN "no_match"
    ELSE LET prop_def == g.psets[g.rels[Head(relIds)].RelatingPropertyDefinition]
         IN IF prop_def.Name = None THEN "AttributeError"
            ELSE IF \/ \E k \in keywords : StrIn(k, lower(prop_def.Name))
                    \/ \E k \in keywords, i \in 1..Len(prop_def.HasProperties) :
                          /\ prop_def.HasProperties[i].Name # None
                          /\ StrIn(k, lower(prop_def.HasProperties[i].Name))
                 THEN "match"
            ELSE ScanIsDefinedBy_properties(g, Tail(relIds), keywords)

\* the loop over wall.IsDefinedBy / door.IsDefinedBy: the first relation, in
\* order, whose definition has no Name raises (None has no lower()), the first
\* whose lower-cased Name contains one of the keywords matches
RECURSIVE ScanIsDefinedBy(_, _, _)
ScanIsDefinedBy(g, relIds, keywords) ==
    IF relIds = <<>> THEN "no_match"
    ELSE LET prop_def == g.psets[g.rels[Head(relIds)].RelatingPropertyDefinition]
         IN IF prop_def.Name = None THEN "AttributeError"
            ELSE IF \E k \in keywords : StrIn(k, lower(prop_def.Name)) THEN "match"
            ELSE ScanIsDefinedBy(g, Tail(relIds), keywords)

\* the envelope test reading "not contained in a storey" instead of "contained
\* in a building"
InBuilding_not_in_storey(element) ==
    ~ \E i \in Range(ContainedInStructure(element)) :
        /\ contRels[i].RelatingStructure # 0
        /\ is_a_type(ents[contRels[i].RelatingStructure].type, IfcBuildingStorey)

\* `for rel in ContainedInStructure: if relating_structure and is_a("IfcBuilding")`
InBuilding(element) ==
    \E i \in Range(ContainedInStructure(element)) :
        /\ contRels[i].RelatingStructure # 0
        /\ is_a_type(ents[contRels[i].RelatingStructure].type, IfcBuilding)

classify_wall(g, wall) ==
    IF InBuilding(wall) THEN "external_wall"
    ELSE LET scan == ScanIsDefinedBy(g, IsDefinedBy(g, wall), {kw_load})
         IN IF scan = "AttributeError" THEN "AttributeError"
            ELSE IF scan = "match" THEN "loadbearing_wall"
            ELSE "internal_wall"

classify_door(g, door) ==
    IF InBuilding(door) THEN "external_door"
    ELSE LET scan == ScanIsDefinedBy(g, IsDefinedBy(g, door), {kw_fire, kw_brand})
         IN IF scan = "AttributeError" THEN "AttributeError"
            ELSE IF scan = "match" THEN "fire_door"
            ELSE "internal_door"

\* type_mapping with the stair flight entry lost
type_mapping_no_flight ==
    (IfcSlab :> "slab") @@ (IfcBeam :> "beam") @@ (IfcColumn :> "column") @@
    (IfcWindow :> "window") @@ (IfcStair :> "stair")

\* the type_mapping dict inside get_element_classification
type_mapping ==
    (IfcSlab :> "slab") @@ (IfcBeam :> "beam") @@ (IfcColumn :> "column") @@
    (IfcWindow :> "window") @@ (IfcStair :> "stair") @@ (IfcStairFlight :> "stair")

\* the classification half of get_element_classification ("AttributeError"
\* when classify_wall / classify_door raises)
classification_of(g, element) ==
    LET element_type == ents[element].type
    IN IF element_type = IfcWall THEN classify_wall(g, element)
       ELSE IF element_type = IfcDoor THEN classify_door(g, element)
       ELSE IF element_type \in {IfcSlab, IfcBeam, IfcColumn, IfcWindow, IfcStair, IfcStairFlight}
            THEN DictGet(type_mapping, element_type, "internal_wall")
       ELSE "internal_wall"

\* get_element_classification: <<classification, fire rating>>
get_element_classification(g, element, lang) ==
    LET classification == classification_of(g, element)
    IN IF classification = "AttributeError" THEN <<"AttributeError", "AttributeError">>
       ELSE <<classification, DictGet(FIRE_RATING_VALUES[lang], classification, "30 min")>>

(* ---------------- classify_storey_type (add_building_fire_info.py) ----- *)
\* `getattr(storey, "Name", "") or ""`, then str(...).lower()
storey_name_str(storey) ==
    IF ents[storey].Name = None THEN <<>> ELSE lower(ents[storey].Name)

\* `float(storey.Elevation) if storey.Elevation else 0.0`; elevations are whole
\* metres, <<>> is an absent Elevation
elevation_of(storey) ==
    IF ents[storey].Elevation = <<>> THEN 0 ELSE ents[storey].Elevation[1]

classify_storey_type(storey) ==
    LET name == storey_name_str(storey)
        elevation == elevation_of(storey)
    IN IF elevation < 0 THEN "basement"
       ELSE IF \/ elevation = 0
               \/ StrIn(kw_ground, name)
               \/ StrIn(kw_erdgeschoss, name)
               \/ StrIn(kw_rez_de_chaussee, name)
            THEN "ground"
       ELSE IF StrIn(kw_roof, name) \/ StrIn(kw_dach, name) \/ StrIn(kw_toit, name)
            THEN "roof"
       ELSE "upper"

(* ---------------- FireRatingManager (add_fire_ratings.py) -------------- *)
\* HasProperties of a property definition that has the Name of a property set
\* but no list of properties (an unset attribute, or an IfcElementQuantity):
\* `list(pset.HasProperties)` raises on it
NoHasProperties ==
    <<[Name |-> None, NominalValue |-> [type |-> "None", wrappedValue |-> "None"]]>>

get_pset_name(element_type, lang) ==
    LET pset_names == DictGet(PSET_NAMES, lang, PSET_NAMES["en"])
        base_type == DictGet(ELEMENT_TYPE_MAP, element_type, "wall")
    IN DictGet(pset_names, base_type, pset_names["wall"])

\* add_fire_rating_property without the lookup of an attached set: a set and a
\* relation are created on every call
add_fire_rating_property_no_lookup(g, element, fire_rating, lang) ==
    LET pset_name == get_pset_name(ents[element].type, lang)
        fire_rating_prop ==
            [Name |-> FireRating,
             NominalValue |-> [type |-> "IfcText", wrappedValue |-> fire_rating]]
    IN [g |-> [psets |-> Append(g.psets, [Name |-> pset_name,
                                          HasProperties |-> <<fire_rating_prop>>]),
               rels |-> Append(g.rels, [RelatedObjects |-> <<element>>,
                                        RelatingPropertyDefinition |-> Len(g.psets) + 1])],
        ok |-> TRUE]

\* add_fire_rating_property skipping the append when the set already holds a
\* FireRating entry
add_fire_rating_property_dedup(g, element, fire_rating, lang) ==
    LET pset_name == get_pset_name(ents[element].type, lang)
        hits == SelectSeq(IsDefinedBy(g, element), LAMBDA r :
                    g.psets[g.rels[r].RelatingPropertyDefinition].Name = pset_name)
        g1 == IF hits # <<>> THEN g
              ELSE [psets |-> Append(g.psets, [Name |-> pset_name, HasProperties |-> <<>>]),
                    rels |-> Append(g.rels, [RelatedObjects |-> <<element>>,
                                             RelatingPropertyDefinition |-> Len(g.psets) + 1])]
        pset == IF hits # <<>> THEN g.rels[hits[1]].RelatingPropertyDefinition
                ELSE Len(g.psets) + 1
        fire_rating_prop ==
            [Name |-> FireRating,
             NominalValue |-> [type |-> "IfcText", wrappedValue |-> fire_rating]]
    IN IF \E i \in 1..Len(g1.psets[pset].HasProperties) :
             g1.psets[pset].HasProperties[i].Name = FireRating
       THEN [g |-> g1, ok |-> TRUE]
       ELSE [g |-> [g1 EXCEPT !.psets[pset].HasProperties = Append(@, fire_rating_prop)],
             ok |-> TRUE]

\* add_fire_rating_property on graph g: the graph after the call and the
\* returned bool
add_fire_rating_property(g, element, fire_rating, lang) ==
    LET element_type == ents[element].type
        pset_name == get_pset_name(element_type, lang)
        hits == SelectSeq(IsDefinedBy(g, element), LAMBDA r :
                    g.psets[g.rels[r].RelatingPropertyDefinition].Name = pset_name)
        created == [Name |-> pset_name, HasProperties |-> <<>>]
        rel_defines_by_properties ==
            [RelatedObjects |-> <<element>>,
             RelatingPropertyDefinition |-> Len(g.psets) + 1]
        g1 == IF hits # <<>> THEN g
              ELSE [psets |-> Append(g.psets, created),
                    rels |-> Append(g.rels, rel_defines_by_properties)]
        pset == IF hits # <<>> THEN g.rels[hits[1]].RelatingPropertyDefinition
                ELSE Len(g.psets) + 1
        fire_rating_prop ==
            [Name |-> FireRating,
             NominalValue |-> [type |-> "IfcText", wrappedValue |-> fire_rating]]
    IN IF g1.psets[pset].HasProperties = NoHasProperties
       THEN [g |-> g1, ok |-> FALSE]
       ELSE [g |-> [g1 EXCEPT !.psets[pset].HasProperties = Append(@, fire_rating_prop)],
             ok |-> TRUE]

\* process_all_elements: the loop over element_types and by_type(element_type);
\* `todo` is the list of elements still to visit.  An exception raised by
\* get_element_classification is not caught and ends the run.
RECURSIVE process_loop(_, _, _, _)
process_loop(g, todo, results, lang) ==
    IF todo = <<>> THEN [g |-> g, results |-> results, raised |-> FALSE]
    ELSE LET element == Head(todo)
             cr == get_element_classification(g, element, lang)
         IN IF cr[1] = "AttributeError"
            THEN [g |-> g, results |-> results, raised |-> TRUE]
            ELSE LET r == add_fire_rating_property(g, element, cr[2], lang)
                 IN IF r.ok
                    THEN process_loop(r.g, Tail(todo),
                            [results EXCEPT !.processed = @ + 1], lang)
                    ELSE process_loop(r.g, Tail(todo),
                            [results EXCEPT !.errors = @ + 1], lang)

element_types ==
    <<IfcWall, IfcDoor, IfcSlab, IfcBeam, IfcColumn, IfcWindow, IfcStair, IfcStairFlight>>

RECURSIVE Flatten(_)
Flatten(seqs) ==
    IF seqs = <<>> THEN <<>> ELSE Head(seqs) \o Flatten(Tail(seqs))

process_all_elements(g, lang) ==
    process_loop(g,
                 Flatten([i \in 1..Len(element_types) |-> by_type(element_types[i])]),
                 [processed |-> 0, skipped |-> 0, errors |-> 0], lang)

(* ---------------- BuildingFireSafetyManager (add_building_fire_info.py) *)
\* createIfcInteger / createIfcReal / createIfcText(str(value)) succeed
Convertible(property_type, property_value) ==
    IF property_type = "integer" THEN property_value.py = "int"
    ELSE IF property_type = "real" THEN property_value.py = "float"
    ELSE TRUE

nominal_value(property_type, property_value) ==
    IF property_type = "integer"
    THEN [type |-> "IfcInteger", wrappedValue |-> property_value.repr]
    ELSE IF property_type = "real"
    THEN [type |-> "IfcReal", wrappedValue |-> property_value.repr]
    ELSE [type |-> "IfcText", wrappedValue |-> property_value.repr]

\* the if/elif chain choosing the property set name from entity.is_a()
safety_pset_name(entity_type, lang) ==
    LET pset_names == DictGet(SAFETY_PSET_NAMES, lang, SAFETY_PSET_NAMES["en"])
    IN IF StrIn(kw_Project, entity_type) THEN pset_names["project"]
       ELSE IF StrIn(kw_Site, entity_type) THEN pset_names["site"]
       ELSE IF StrIn(kw_Building, entity_type) THEN pset_names["building"]
       ELSE IF StrIn(kw_BuildingStorey, entity_type) THEN pset_names["storey"]
       ELSE pset_names["building"]

\* add_fire_safety_property putting the new property in front of the list
add_fire_safety_property_prepend(g, entity, property_name, property_value, property_type, lang) ==
    LET pset_name == safety_pset_name(ents[entity].type, lang)
        hits == SelectSeq(IsDefinedBy(g, entity), LAMBDA r :
                    g.psets[g.rels[r].RelatingPropertyDefinition].Name = pset_name)
        g1 == IF hits # <<>> THEN g
              ELSE [psets |-> Append(g.psets, [Name |-> pset_name, HasProperties |-> <<>>]),
                    rels |-> Append(g.rels, [RelatedObjects |-> <<entity>>,
                                             RelatingPropertyDefinition |-> Len(g.psets) + 1])]
        pset == IF hits # <<>> THEN g.rels[hits[1]].RelatingPropertyDefinition
                ELSE Len(g.psets) + 1
        fire_safety_prop ==
            [Name |-> property_name,
             NominalValue |-> nominal_value(property_type, property_value)]
    IN IF ~Convertible(property_type, property_value)
       THEN [g |-> g1, ok |-> FALSE]
       ELSE [g |-> [g1 EXCEPT !.psets[pset].HasProperties = <<fire_safety_prop>> \o @],
             ok |-> TRUE]

\* add_fire_safety_property undoing the creation of the set and the relation
\* when the value cannot be converted
add_fire_safety_property_rollback(g, entity, property_name, property_value, property_type, lang) ==
    LET pset_name == safety_pset_name(ents[entity].type, lang)
        hits == SelectSeq(IsDefinedBy(g, entity), LAMBDA r :
                    g.psets[g.rels[r].RelatingPropertyDefinition].Name = pset_name)
        g1 == IF hits # <<>> THEN g
              ELSE [psets |-> Append(g.psets, [Name |-> pset_name, HasProperties |-> <<>>]),
                    rels |-> Append(g.rels, [RelatedObjects |-> <<entity>>,
                                             RelatingPropertyDefinition |-> Len(g.psets) + 1])]
        pset == IF hits # <<>> THEN g.rels[hits[1]].RelatingPropertyDefinition
                ELSE Len(g.psets) + 1
        fire_safety_prop ==
            [Name |-> property_name,
             NominalValue |-> nominal_value(property_type, property_value)]
    IN IF ~Convertible(property_type, property_value)
       THEN [g |-> g, ok |-> FALSE]
       ELSE [g |-> [g1 EXCEPT !.psets[pset].HasProperties = Append(@, fire_safety_prop)],
             ok |-> TRUE]

add_fire_safety_property(g, entity, property_name, property_value, property_type, lang) ==
    LET entity_type == ents[entity].type
        pset_name == safety_pset_name(entity_type, lang)
        hits == SelectSeq(IsDefinedBy(g, entity), LAMBDA r :
                    g.psets[g.rels[r].RelatingPropertyDefinition].Name = pset_name)
        created == [Name |-> pset_name, HasProperties |-> <<>>]
        rel_defines_by_properties ==
            [RelatedObjects |-> <<entity>>,
             RelatingPropertyDefinition |-> Len(g.psets) + 1]
        g1 == IF hits # <<>> THEN g
              ELSE [psets |-> Append(g.psets, created),
                    rels |-> Append(g.rels, rel_defines_by_properties)]
        pset == IF hits # <<>> THEN g.rels[hits[1]].RelatingPropertyDefinition
                ELSE Len(g.psets) + 1
        fire_safety_prop ==
            [Name |-> property_name,
             NominalValue |-> nominal_value(property_type, property_value)]
    IN IF ~Convertible(property_type, property_value)
       THEN [g |-> g1, ok |-> FALSE]
       ELSE IF g1.psets[pset].HasProperties = NoHasProperties
       THEN [g |-> g1, ok |-> FALSE]
       ELSE [g |-> [g1 EXCEPT !.psets[pset].HasProperties = Append(@, fire_safety_prop)],
             ok |-> TRUE]

(* ---------------- add_property_sets_to_model (add_property_sets.py) ---- *)
BoolValue(b) ==
    [type |-> "IfcBoolean", wrappedValue |-> b]

\* f"WIN-{i+1:03d}" for the i-th window (i counted from 1 here)
WinReference(i) ==
    IF i < 10 THEN "WIN-00" \o ToString(i)
    ELSE IF i < 100 THEN "WIN-0" \o ToString(i)
    ELSE "WIN-" \o ToString(i)

\* one pass of a `for` body that creates a property set and its relation
attach_new_pset(g, element, name, properties) ==
    [psets |-> Append(g.psets, [Name |-> name, HasProperties |-> properties]),
     rels |-> Append(g.rels, [RelatedObjects |-> <<element>>,
                              RelatingPropertyDefinition |-> Len(g.psets) + 1])]

RECURSIVE wall_loop(_, _)
wall_loop(g, walls) ==
    IF walls = <<>> THEN g
    ELSE LET wall == Head(walls)
             g1 == attach_new_pset(g, wall, Pset_WallCommon,
                     <<[Name |-> IsExternal, NominalValue |-> BoolValue("True")],
                       [Name |-> LoadBearing, NominalValue |-> BoolValue("False")]>>)
             g2 == attach_new_pset(g1, wall, CPset_Custom,
                     <<[Name |-> Graffitischutz, NominalValue |-> BoolValue("True")]>>)
         IN wall_loop(g2, Tail(walls))

RECURSIVE window_loop(_, _, _)
window_loop(g, windows, i) ==
    IF windows = <<>> THEN g
    ELSE LET window == Head(windows)
             g1 == attach_new_pset(g, window, Pset_WindowCommon,
                     <<[Name |-> IsExternal, NominalValue |-> BoolValue("True")],
                       [Name |-> Reference,
                        NominalValue |-> [type |-> "IfcLabel",
                                          wrappedValue |-> WinReference(i)]]>>)
             g2 == attach_new_pset(g1, window, CPSet_ReUse,
                     <<[Name |-> Reusable, NominalValue |-> BoolValue("False")]>>)
         IN window_loop(g2, Tail(windows), i + 1)

add_property_sets_to_model(g) ==
    window_loop(wall_loop(g, by_type(IfcWall)), by_type(IfcWindow), 1)

(* ---------------- Bounds and inputs ------------------------------------ *)
\* calls of the single-entity operations in one behaviour
MaxCalls == 2
\* whole-script runs in one behaviour
MaxRuns == 3

RatingInputs ==
    {"REI 60"}
PropertyNameInputs ==
    {MaximumOccupancy, StoreyFireClassification}
\* (value, property_type) arguments: 50 as integer, "abc" as integer (not
\* convertible), "QSS Level 3" as text
ValueInputs ==
    {<<[py |-> "int", repr |-> "50"], "integer">>,
     <<[py |-> "str", repr |-> "abc"], "integer">>,
     <<[py |-> "str", repr |-> "QSS Level 3"], "text">>}

(* ---------------- Input models ----------------------------------------- *)
NoElevation == <<>>

\* a building, a storey, two walls sharing one Pset_WallCommon (one relation
\* with both walls in RelatedObjects), the first wall also carrying
\* CPset_Custom, and a window without property sets
InputEnts ==
    <<[type |-> IfcBuilding, Name |-> <<"H">>, Elevation |-> NoElevation],
      [type |-> IfcBuildingStorey, Name |-> GroundFloor, Elevation |-> <<0>>],
      [type |-> IfcWall, Name |-> <<"W","1">>, Elevation |-> NoElevation],
      [type |-> IfcWall, Name |-> <<"W","2">>, Elevation |-> NoElevation],
      [type |-> IfcWindow, Name |-> <<"F">>, Elevation |-> NoElevation]>>
InputContRels ==
    <<[RelatingStructure |-> 2, RelatedElements |-> <<3>>],
      [RelatingStructure |-> 2, RelatedElements |-> <<4>>],
      [RelatingStructure |-> 2, RelatedElements |-> <<5>>]>>
WallCommonProps ==
    <<[Name |-> IsExternal, NominalValue |-> BoolValue("True")],
      [Name |-> LoadBearing, NominalValue |-> BoolValue("False")]>>
\* the graphs a run may start from: no property sets at all (the output of
\* create_small_house); property sets already present, one of them shared by
\* the two walls; a property set without a Name on the second wall
InputGraphs ==
    {[psets |-> <<>>, rels |-> <<>>],
     [psets |-> <<[Name |-> Pset_WallCommon, HasProperties |-> WallCommonProps],
                  [Name |-> CPset_Custom, HasProperties |->
                     <<[Name |-> Graffitischutz, NominalValue |-> BoolValue("True")]>>]>>,
      rels |-> <<[RelatedObjects |-> <<3, 4>>, RelatingPropertyDefinition |-> 1],
                 [RelatedObjects |-> <<3>>, RelatingPropertyDefinition |-> 2]>>],
     [psets |-> <<[Name |-> None, HasProperties |-> WallCommonProps]>>,
      rels |-> <<[RelatedObjects |-> <<4>>, RelatingPropertyDefinition |-> 1]>>]}

NoCall ==
    [op |-> "none", entity |-> 0, property_name |-> <<>>, ok |-> FALSE,
     args |-> <<>>, value |-> <<>>,
     category |-> "none", results |-> [processed |-> 0, skipped |-> 0, errors |-> 0],
     pre |-> [psets |-> <<>>, rels |-> <<>>],
     runs |-> 0, base |-> [psets |-> <<>>, rels |-> <<>>]]

(* ---------------- Inputs of the classifiers ---------------------------- *)
\* property sets attached to the classified element
MaxPsets == 2
\* containment relations naming the classified element
MaxContainment == 1
\* storey elevations range over -MaxElevation .. MaxElevation metres
MaxElevation == 6
\* classifier calls in one behaviour
MaxClassifyCalls == 2

ElementTypeInputs ==
    {IfcWall, IfcWallStandardCase, IfcDoor, IfcSlab, IfcBeam, IfcColumn,
     IfcWindow, IfcStair, IfcStairFlight, IfcRoof}
PsetNameInputs ==
    {Pset_WallCommon, LoadSpecs, Brandschutz, FireSafety, None}
PropertyListInputs ==
    {<<[Name |-> LoadBearing, NominalValue |-> BoolValue("False")]>>,
     <<[Name |-> FireRating,
        NominalValue |-> [type |-> "IfcText", wrappedValue |-> "REI 60"]]>>}
StoreyNameInputs ==
    {GroundFloor, FirstFloor, Dachgeschoss, Erdgeschoss, Keller, Toiture, ROOF,
     RezDeChaussee, None}

\* sequences over S of length at most n
SeqsUpTo(S, n) ==
    UNION {[1..k -> S] : k \in 0..n}

\* entities of the classifier inputs: 1 building, 2 storey, 3 site, 4 element
ClassifyEnts(storeyName, storeyElevation, elementType) ==
    <<[type |-> IfcBuilding, Name |-> <<"H">>, Elevation |-> NoElevation],
      [type |-> IfcBuildingStorey, Name |-> storeyName, Elevation |-> storeyElevation],
      [type |-> IfcSite, Name |-> <<"S">>, Elevation |-> NoElevation],
      [type |-> elementType, Name |-> <<"E">>, Elevation |-> NoElevation]>>

\* one element of any kind, with any containment (0 is a relation whose
\* RelatingStructure is None) and any attached property sets
InitElements ==
    /\ \E t \in ElementTypeInputs : ents = ClassifyEnts(GroundFloor, <<0>>, t)
    /\ \E targets \in SeqsUpTo(0..3, MaxContainment) :
         contRels = [i \in 1..Len(targets) |->
                        [RelatingStructure |-> targets[i], RelatedElements |-> <<4>>]]
    /\ \E sets \in SeqsUpTo(PsetNameInputs \X PropertyListInputs, MaxPsets) :
         /\ psets = [i \in 1..Len(sets) |->
                        [Name |-> sets[i][1], HasProperties |-> sets[i][2]]]
         /\ rels = [i \in 1..Len(sets) |->
                        [RelatedObjects |-> <<4>>, RelatingPropertyDefinition |-> i]]

\* one storey of any name and elevation
InitStoreys ==
    /\ \E n \in StoreyNameInputs,
          el \in {NoElevation} \cup {<<z>> : z \in (0 - MaxElevation)..MaxElevation} :
         ents = ClassifyEnts(n, el, IfcWall)
    /\ contRels = <<[RelatingStructure |-> 2, RelatedElements |-> <<4>>]>>
    /\ psets = <<>>
    /\ rels = <<>>

InitClassify ==
    /\ InitElements \/ InitStoreys
    /\ aggRels = <<>>
    /\ voidRels = <<>>
    /\ fillRels = <<>>
    /\ ret = NoCall
    /\ ncalls = 0

Init ==
    /\ ents = InputEnts
    /\ contRels = InputContRels
    /\ \E g \in InputGraphs : psets = g.psets /\ rels = g.rels
    /\ aggRels = <<>>
    /\ voidRels = <<>>
    /\ fillRels = <<>>
    /\ ret = NoCall
    /\ ncalls = 0

(* ---------------- Actions ---------------------------------------------- *)
Entities ==
    1..Len(ents)

\* FireRatingManager(model, language).add_fire_rating_property(element, fire_rating)
Call_add_fire_rating_property ==
    /\ ncalls < MaxCalls
    /\ \E language \in Languages, element \in Entities, fire_rating \in RatingInputs :
         \E r \in {add_fire_rating_property(Graph, element, fire_rating, language)} :
            /\ psets' = r.g.psets
            /\ rels' = r.g.rels
            /\ ret' = [NoCall EXCEPT !.op = "add_fire_rating_property",
                          !.entity = element, !.property_name = FireRating,
                          !.ok = r.ok, !.pre = Graph]
    /\ ncalls' = ncalls + 1
    /\ UNCHANGED <<aggRels, voidRels, fillRels, ents, contRels>>

\* BuildingFireSafetyManager.add_fire_safety_property(entity, name, value, type)
Call_add_fire_safety_property ==
    /\ ncalls < MaxCalls
    /\ \E language \in Languages, entity \in Entities,
          property_name \in PropertyNameInputs, v \in ValueInputs :
         \E r \in {add_fire_safety_property(Graph, entity, property_name,
                                               v[1], v[2], language)} :
            /\ psets' = r.g.psets
            /\ rels' = r.g.rels
            /\ ret' = [NoCall EXCEPT !.op = "add_fire_safety_property",
                          !.entity = entity, !.property_name = property_name,
                          !.ok = r.ok, !.pre = Graph]
    /\ ncalls' = ncalls + 1
    /\ UNCHANGED <<aggRels, voidRels, fillRels, ents, contRels>>

\* FireRatingManager.process_all_elements(), one whole run
Run_process_all_elements ==
    /\ ncalls < MaxRuns
    /\ \E language \in Languages :
         \E r \in {process_all_elements(Graph, language)} :
            /\ psets' = r.g.psets
            /\ rels' = r.g.rels
            /\ ret' = [NoCall EXCEPT !.op = "process_all_elements",
                          !.ok = ~r.raised, !.results = r.results, !.pre = Graph,
                          !.runs = IF ret.op = "process_all_elements"
                                   THEN ret.runs + 1 ELSE 1,
                          !.base = IF ret.op = "process_all_elements"
                                   THEN ret.base ELSE Graph]
    /\ ncalls' = ncalls + 1
    /\ UNCHANGED <<aggRels, voidRels, fillRels, ents, contRels>>

\* add_property_sets_to_model(), one whole run
Run_add_property_sets_to_model ==
    /\ ncalls < MaxRuns
    /\ \E g \in {add_property_sets_to_model(Graph)} :
          /\ psets' = g.psets
          /\ rels' = g.rels
          /\ ret' = [NoCall EXCEPT !.op = "add_property_sets_to_model",
                        !.ok = TRUE, !.pre = Graph]
    /\ ncalls' = ncalls + 1
    /\ UNCHANGED <<aggRels, voidRels, fillRels, ents, contRels>>

\* ModelAnalyzer(model, language).get_element_classification(element)
Call_get_element_classification ==
    /\ ncalls < MaxClassifyCalls
    /\ \E language \in Languages, element \in Entities :
         /\ ents[element].type \in ElementTypeInputs
         /\ \E c \in {get_element_classification(Graph, element, language)} :
              ret' = [NoCall EXCEPT !.op = "get_element_classification",
                         !.entity = element, !.ok = (c[1] # "AttributeError"),
                         !.category = c[1], !.pre = Graph]
    /\ ncalls' = ncalls + 1
    /\ UNCHANGED <<aggRels, voidRels, fillRels, ents, contRels, psets, rels>>

\* classify_wall storing its result in the model, as a property set of the wall
Call_classify_wall_tagging ==
    /\ ncalls < MaxClassifyCalls
    /\ \E wall \in Entities :
         /\ is_a_type(ents[wall].type, IfcWall)
         /\ \E c \in {classify_wall(Graph, wall)} :
              /\ ret' = [NoCall EXCEPT !.op = "classify_wall", !.entity = wall,
                            !.ok = (c # "AttributeError"), !.category = c, !.pre = Graph]
              /\ psets' = Append(psets, [Name |-> <<"C">>, HasProperties |-> <<>>])
              /\ rels' = Append(rels, [RelatedObjects |-> <<wall>>,
                                       RelatingPropertyDefinition |-> Len(psets) + 1])
    /\ ncalls' = ncalls + 1
    /\ UNCHANGED <<aggRels, voidRels, fillRels, ents, contRels>>

\* ModelAnalyzer.classify_wall(wall)
Call_classify_wall ==
    /\ ncalls < MaxClassifyCalls
    /\ \E wall \in Entities :
         /\ is_a_type(ents[wall].type, IfcWall)
         /\ \E c \in {classify_wall(Graph, wall)} :
              ret' = [NoCall EXCEPT !.op = "classify_wall", !.entity = wall,
                         !.ok = (c # "AttributeError"), !.category = c, !.pre = Graph]
    /\ ncalls' = ncalls + 1
    /\ UNCHANGED <<aggRels, voidRels, fillRels, ents, contRels, psets, rels>>

\* ModelAnalyzer.classify_door(door)
Call_classify_door ==
    /\ ncalls < MaxClassifyCalls
    /\ \E door \in Entities :
         /\ is_a_type(ents[door].type, IfcDoor)
         /\ \E c \in {classify_door(Graph, door)} :
              ret' = [NoCall EXCEPT !.op = "classify_door", !.entity = door,
                         !.ok = (c # "AttributeError"), !.category = c, !.pre = Graph]
    /\ ncalls' = ncalls + 1
    /\ UNCHANGED <<aggRels, voidRels, fillRels, ents, contRels, psets, rels>>

\* BuildingFireSafetyManager.classify_storey_type(storey)
Call_classify_storey_type ==
    /\ ncalls < MaxClassifyCalls
    /\ \E storey \in Entities :
         /\ ents[storey].type = IfcBuildingStorey
         /\ ret' = [NoCall EXCEPT !.op = "classify_storey_type", !.entity = storey,
                       !.ok = TRUE, !.category = classify_storey_type(storey),
                       !.pre = Graph]
    /\ ncalls' = ncalls + 1
    /\ UNCHANGED <<aggRels, voidRels, fillRels, ents, contRels, psets, rels>>

Next ==
    \/ Call_add_fire_rating_property
    \/ Call_add_fire_safety_property
    \/ Run_process_all_elements
    \/ Run_add_property_sets_to_model

Spec ==
    Init /\ [][Next]_vars

\* the fire scripts alone, without add_property_sets_to_model
NextFire ==
    \/ Call_add_fire_rating_property
    \/ Call_add_fire_safety_property
    \/ Run_process_all_elements

SpecFire ==
    Init /\ [][NextFire]_vars

\* the classifiers alone, on every input
NextClassify ==
    \/ Call_get_element_classification
    \/ Call_classify_wall
    \/ Call_classify_door
    \/ Call_classify_storey_type

SpecClassify ==
    InitClassify /\ [][NextClassify]_vars

(* ---------------- Geometry of the generation scripts ------------------- *)
\* A Python length x is the integer 1000 * x (8.0 is 8000, 0.02 is 20), an
\* angle is in degrees (math.pi is 180), a direction is an integer unit
\* vector.  The lengths the scripts halve are even, so every `/ 2` is exact.
\* Storey elevations stay whole numbers, as the classifiers read them.
pi ==
    180
RECURSIVE newton(_, _)
newton(n, x) ==
    LET y == (x + n \div x) \div 2
    IN  IF y >= x THEN x ELSE newton(n, y)
\* math.sqrt of a sum of squares, to the last digit kept
sqrt(n) ==
    IF n = 0 THEN 0 ELSE newton(n, n)
\* math.cos and math.sin at the angles the scripts use
cos(angle) ==
    CASE angle = 0 -> 1
      [] angle = pi \div 2 -> 0
      [] angle = 0 - pi \div 2 -> 0
      [] angle = pi -> 0 - 1
sin(angle) ==
    CASE angle = 0 -> 0
      [] angle = pi \div 2 -> 1
      [] angle = 0 - pi \div 2 -> 0 - 1
      [] angle = pi -> 0

\* an attribute left out of a constructor call
Omitted ==
    <<>>
world_origin ==
    <<0, 0, 0>>
world_z ==
    <<0, 0, 1>>
world_x ==
    <<1, 0, 0>>
createIfcAxis2Placement3D(Location, Axis, RefDirection) ==
    [Location |-> Location, Axis |-> Axis, RefDirection |-> RefDirection]
createIfcLocalPlacement(PlacementRelTo, RelativePlacement) ==
    [PlacementRelTo |-> PlacementRelTo, RelativePlacement |-> RelativePlacement]
world_placement ==
    createIfcAxis2Placement3D(world_origin, world_z, world_x)
\* the swept solid of a product: rectangle profile XDim x YDim, extruded by Depth
createIfcExtrudedAreaSolid(XDim, YDim, Depth) ==
    [XDim |-> XDim, YDim |-> YDim, Depth |-> Depth]

\* ifcopenshell.file(): the empty model
EmptyModel ==
    [ents |-> <<>>, contRels |-> <<>>, aggRels |-> <<>>, voidRels |-> <<>>,
     fillRels |-> <<>>, psets |-> <<>>, rels |-> <<>>]
\* the model of the current state
Model ==
    [ents |-> ents, contRels |-> contRels, aggRels |-> aggRels,
     voidRels |-> voidRels, fillRels |-> fillRels, psets |-> psets, rels |-> rels]
\* model.createIfc<type>(...): a rooted entity, its id is its position
createEntity(m, type, Name, Elevation, ObjectPlacement, Representation) ==
    [m EXCEPT !.ents = Append(@, [type |-> type, Name |-> Name,
                                   Elevation |-> Elevation,
                                   ObjectPlacement |-> ObjectPlacement,
                                   Representation |-> Representation])]
createIfcRelContainedInSpatialStructure(m, RelatedElements, RelatingStructure) ==
    [m EXCEPT !.contRels = Append(@, [RelatedElements |-> RelatedElements,
                                       RelatingStructure |-> RelatingStructure])]
createIfcRelAggregates(m, RelatingObject, RelatedObjects) ==
    [m EXCEPT !.aggRels = Append(@, [RelatingObject |-> RelatingObject,
                                      RelatedObjects |-> RelatedObjects])]
createIfcRelVoidsElement(m, RelatingBuildingElement, RelatedOpeningElement) ==
    [m EXCEPT !.voidRels = Append(@, [RelatingBuildingElement |-> RelatingBuildingElement,
                                       RelatedOpeningElement |-> RelatedOpeningElement])]
createIfcRelFillsElement(m, RelatingOpeningElement, RelatedBuildingElement) ==
    [m EXCEPT !.fillRels = Append(@, [RelatingOpeningElement |-> RelatingOpeningElement,
                                       RelatedBuildingElement |-> RelatedBuildingElement])]

\* create_wall_with_proper_joins, lines 22-26: the rotation angle
wall_angle_by_y(start_x, start_y, end_x, end_y) ==
    IF start_x = end_x \/ start_y # end_y
    THEN IF end_y > start_y THEN pi \div 2 ELSE 0 - pi \div 2
    ELSE IF end_x > start_x THEN 0 ELSE pi
wall_angle_vertical_flipped(start_x, start_y, end_x, end_y) ==
    IF start_x = end_x
    THEN IF end_y > start_y THEN 0 - pi \div 2 ELSE pi \div 2
    ELSE IF end_x > start_x THEN 0 ELSE pi
wall_angle(start_x, start_y, end_x, end_y) ==
    IF start_x = end_x
    THEN IF end_y > start_y THEN pi \div 2 ELSE 0 - pi \div 2
    ELSE IF end_x > start_x THEN 0 ELSE pi

\* thickness of the wall profile, the literal of line 43
wall_profile_thickness ==
    200

\* create_wall_with_proper_joins: the model with the new wall, the wall, and
\* the locals wall_length and angle
create_wall_with_proper_joins(m, start_x, start_y, end_x, end_y, wall_name, base_height, wall_height) ==
    LET wall_length == sqrt((end_x - start_x) * (end_x - start_x)
                            + (end_y - start_y) * (end_y - start_y))
        wall_center_x == (start_x + end_x) \div 2
        wall_center_y == (start_y + end_y) \div 2
        angle == wall_angle(start_x, start_y, end_x, end_y)
        wall_point == <<wall_center_x, wall_center_y, base_height>>
        wall_placement ==
            IF angle # 0
            THEN createIfcAxis2Placement3D(wall_point, world_z,
                                           <<cos(angle), sin(angle), 0>>)
            ELSE createIfcAxis2Placement3D(wall_point, world_z, world_x)
        wall_local_placement == createIfcLocalPlacement(world_placement, wall_placement)
        wall_solid == createIfcExtrudedAreaSolid(wall_length, wall_profile_thickness,
                                                 wall_height)
    IN  [model |-> createEntity(m, IfcWall, wall_name, NoElevation,
                                wall_local_placement, wall_solid),
         wall |-> Len(m.ents) + 1,
         wall_length |-> wall_length,
         angle |-> angle]

\* create_slab: the model with the new slab, and the slab
create_slab_at_corner(m, length, width, base_z, thickness, slab_name) ==
    [model |-> createEntity(m, IfcSlab, slab_name, NoElevation,
                            createIfcLocalPlacement(world_placement,
                                createIfcAxis2Placement3D(<<0, 0, base_z>>,
                                                          Omitted, Omitted)),
                            createIfcExtrudedAreaSolid(length, width, thickness)),
     slab |-> Len(m.ents) + 1]
create_slab(m, length, width, base_z, thickness, slab_name) ==
    LET slab_center_x == length \div 2
        slab_center_y == width \div 2
        slab_center_z == base_z
        slab_point == <<slab_center_x, slab_center_y, slab_center_z>>
        slab_placement ==
            createIfcLocalPlacement(world_placement,
                createIfcAxis2Placement3D(slab_point, Omitted, Omitted))
        slab_solid == createIfcExtrudedAreaSolid(length, width, thickness)
    IN  [model |-> createEntity(m, IfcSlab, slab_name, NoElevation,
                                slab_placement, slab_solid),
         slab |-> Len(m.ents) + 1]

(* ---------------- create_small_house (create_small_house.py) ----------- *)
house_length ==
    8000
house_width ==
    6000
wall_height ==
    3000
wall_thickness ==
    200
slab_thickness ==
    200
\* [start_x, start_y, end_x, end_y, name]
wall_configs ==
    <<<<0, 0, house_length, 0, FrontWall>>,
      <<house_length, 0, house_length, house_width, RightWall>>,
      <<house_length, house_width, 0, house_width, BackWall>>,
      <<0, house_width, 0, 0, LeftWall>>>>
\* [storey, wall_index, offset_from_start, window_name], indices from 0
window_configs ==
    <<<<0, 0, 2000,   \* "Ground Front Window 1"
        <<"G","r","o","u","n","d"," ","F","r","o","n","t"," ","W","i","n","d","o","w"," ","1">>>>,
      <<0, 0, 6000,   \* "Ground Front Window 2"
        <<"G","r","o","u","n","d"," ","F","r","o","n","t"," ","W","i","n","d","o","w"," ","2">>>>,
      <<0, 2, 3000,   \* "Ground Back Window"
        <<"G","r","o","u","n","d"," ","B","a","c","k"," ","W","i","n","d","o","w">>>>,
      <<1, 0, 2000,   \* "First Front Window 1"
        <<"F","i","r","s","t"," ","F","r","o","n","t"," ","W","i","n","d","o","w"," ","1">>>>,
      <<1, 0, 6000,   \* "First Front Window 2"
        <<"F","i","r","s","t"," ","F","r","o","n","t"," ","W","i","n","d","o","w"," ","2">>>>,
      <<1, 2, 3000,   \* "First Back Window"
        <<"F","i","r","s","t"," ","B","a","c","k"," ","W","i","n","d","o","w">>>>>>
window_width ==
    1500
window_height ==
    1200
window_depth ==
    250
door_offset ==
    2000
door_width ==
    900
door_height ==
    2100
door_depth ==
    250

house_hierarchy_relation_per_storey ==
    LET m1 == createEntity(EmptyModel, IfcProject, SmallHouseProject, NoElevation,
                           Omitted, Omitted)
        m2 == createEntity(m1, IfcSite, HouseSite, NoElevation, world_placement, Omitted)
        m3 == createEntity(m2, IfcBuilding, SmallHouse, NoElevation, world_placement,
                           Omitted)
        m4 == createEntity(m3, IfcBuildingStorey, GroundFloor, <<0>>, world_placement,
                           Omitted)
        m5 == createEntity(m4, IfcBuildingStorey, FirstFloor, <<3>>, world_placement,
                           Omitted)
        m6 == createIfcRelAggregates(m5, 1, <<2>>)
        m7 == createIfcRelAggregates(m6, 2, <<3>>)
        m8 == createIfcRelAggregates(m7, 3, <<4>>)
        m9 == createIfcRelAggregates(m8, 3, <<5>>)
    IN  [model |-> m9, ground_storey |-> 4, first_storey |-> 5]
\* lines 145-157: Project > Site > Building > Storeys
house_hierarchy ==
    LET m1 == createEntity(EmptyModel, IfcProject, SmallHouseProject, NoElevation,
                           Omitted, Omitted)
        project == Len(m1.ents)
        m2 == createEntity(m1, IfcSite, HouseSite, NoElevation, world_placement, Omitted)
        site == Len(m2.ents)
        m3 == createEntity(m2, IfcBuilding, SmallHouse, NoElevation, world_placement,
                           Omitted)
        building == Len(m3.ents)
        m4 == createEntity(m3, IfcBuildingStorey, GroundFloor, <<0>>, world_placement,
                           Omitted)
        ground_storey == Len(m4.ents)
        m5 == createEntity(m4, IfcBuildingStorey, FirstFloor, <<3>>, world_placement,
                           Omitted)
        first_storey == Len(m5.ents)
        m6 == createIfcRelAggregates(m5, project, <<site>>)
        m7 == createIfcRelAggregates(m6, site, <<building>>)
        m8 == createIfcRelAggregates(m7, building, <<ground_storey, first_storey>>)
    IN  [model |-> m8, ground_storey |-> ground_storey, first_storey |-> first_storey]

\* the loop placing every wall at height 0, whatever the storey
RECURSIVE storey_walls_loop_at_zero(_, _, _, _, _, _)
storey_walls_loop_at_zero(m, i, suffix, base_height, storey, made) ==
    IF i > Len(wall_configs) THEN [model |-> m, walls |-> made]
    ELSE LET c == wall_configs[i]
             r == create_wall_with_proper_joins(m, c[1], c[2], c[3], c[4],
                                                c[5] \o suffix, 0, wall_height)
             m1 == createIfcRelContainedInSpatialStructure(r.model, <<r.wall>>, storey)
         IN  \* the next iteration starts on the model this one has built
             CHOOSE rest \in {storey_walls_loop_at_zero(next, i + 1, suffix, base_height,
                                                        storey, Append(made, r.wall)) :
                              next \in {m1}} : TRUE

\* lines 176-196: the `for` over wall_configs for one storey, from config i on
RECURSIVE storey_walls_loop(_, _, _, _, _, _)
storey_walls_loop(m, i, suffix, base_height, storey, made) ==
    IF i > Len(wall_configs) THEN [model |-> m, walls |-> made]
    ELSE LET c == wall_configs[i]
             r == create_wall_with_proper_joins(m, c[1], c[2], c[3], c[4],
                                                c[5] \o suffix, base_height, wall_height)
             m1 == createIfcRelContainedInSpatialStructure(r.model, <<r.wall>>, storey)
         IN  \* the next iteration starts on the model this one has built
             CHOOSE rest \in {storey_walls_loop(next, i + 1, suffix, base_height, storey,
                                                Append(made, r.wall)) :
                              next \in {m1}} : TRUE

\* lines 349-362: the opening of a window or door, with its two relations
add_opening_depth_of_filler(m, host, filler, name, placement, width, height) ==
    LET m1 == createEntity(m, IfcOpeningElement, name, NoElevation, placement,
                  createIfcExtrudedAreaSolid(width + 20,
                      m.ents[filler].Representation.YDim + 50, height + 10))
        m2 == createIfcRelVoidsElement(m1, host, Len(m1.ents))
    IN  createIfcRelFillsElement(m2, Len(m1.ents), filler)
add_opening_shared(m, host, filler, name, placement, width, height) ==
    LET opening == IF \E i \in 1..Len(m.ents) : m.ents[i].type = IfcOpeningElement
                   THEN CHOOSE i \in 1..Len(m.ents) : m.ents[i].type = IfcOpeningElement
                   ELSE Len(m.ents) + 1
        m1 == IF opening > Len(m.ents)
              THEN createEntity(m, IfcOpeningElement, name, NoElevation, placement,
                       createIfcExtrudedAreaSolid(width + 20, wall_thickness + 50,
                                                  height + 10))
              ELSE m
        m2 == createIfcRelVoidsElement(m1, host, opening)
    IN  createIfcRelFillsElement(m2, opening, filler)
add_opening(m, host, filler, name, placement, width, height) ==
    LET opening_width == width + 20
        opening_depth == wall_thickness + 50
        m1 == createEntity(m, IfcOpeningElement, name, NoElevation, placement,
                  createIfcExtrudedAreaSolid(opening_width, opening_depth, height + 10))
        opening == Len(m1.ents)
        m2 == createIfcRelVoidsElement(m1, host, opening)
    IN  createIfcRelFillsElement(m2, opening, filler)

\* lines 286-375: the `for` over window_configs, from config i on
RECURSIVE house_windows_loop(_, _, _, _, _)
house_windows_loop(m, i, all_walls, ground_storey, first_storey) ==
    IF i > Len(window_configs) THEN m
    ELSE LET storey_idx == window_configs[i][1]
             wall_idx == window_configs[i][2]
             offset == window_configs[i][3]
             window_name == window_configs[i][4]
             wall == all_walls[storey_idx + 1][wall_idx + 1]
             storey == IF storey_idx = 0 THEN ground_storey ELSE first_storey
             base_z == IF storey_idx = 0 THEN 0 ELSE wall_height
             window_sill_height == base_z + 1000
             wall_config == wall_configs[wall_idx + 1]
             start_x == wall_config[1]
             start_y == wall_config[2]
             end_x == wall_config[3]
             end_y == wall_config[4]
             wall_length == sqrt((end_x - start_x) * (end_x - start_x)
                                 + (end_y - start_y) * (end_y - start_y))
             \* t = offset / wall_length, then start + t * (end - start)
             window_x == start_x + (offset * (end_x - start_x)) \div wall_length
             window_y == start_y + (offset * (end_y - start_y)) \div wall_length
             offset_x == IF start_x = end_x
                         THEN IF wall_idx = 1 THEN wall_thickness \div 2
                              ELSE 0 - wall_thickness \div 2
                         ELSE 0
             offset_y == 0
             window_point == <<window_x + offset_x, window_y + offset_y,
                               window_sill_height>>
             window_placement ==
                 createIfcLocalPlacement(world_placement,
                     createIfcAxis2Placement3D(window_point, Omitted, Omitted))
             m1 == createEntity(m, IfcWindow, window_name, NoElevation, window_placement,
                       createIfcExtrudedAreaSolid(window_width, window_depth,
                                                  window_height))
             window == Len(m1.ents)
             m2 == add_opening(m1, wall, window, window_name \o OpeningSuffix,
                               window_placement, window_width, window_height)
             m3 == createIfcRelContainedInSpatialStructure(m2, <<window>>, storey)
         IN  \* the next iteration starts on the model this one has built
             CHOOSE rest \in {house_windows_loop(next, i + 1, all_walls, ground_storey,
                                                 first_storey) :
                              next \in {m3}} : TRUE

\* lines 379-453: the door of the ground floor right wall
house_door(m, ground_walls, ground_storey) ==
    LET door_x == house_length
        door_y == door_offset
        door_point == <<door_x, door_y, 0>>
        door_y_dir == <<0, 1, 0>>
        door_placement ==
            createIfcLocalPlacement(world_placement,
                createIfcAxis2Placement3D(door_point, world_z, door_y_dir))
        m1 == createEntity(m, IfcDoor, FrontDoor, NoElevation, door_placement,
                  createIfcExtrudedAreaSolid(door_width, door_depth, door_height))
        door == Len(m1.ents)
        m2 == add_opening(m1, ground_walls[2], door, DoorOpening, door_placement,
                          door_width, door_height)
    IN  createIfcRelContainedInSpatialStructure(m2, <<door>>, ground_storey)

house_slabs_shared_relation(m, ground_storey, first_storey) ==
    LET g == create_slab(m, house_length, house_width, 0, slab_thickness,
                         <<"G","r","o","u","n","d"," ","F","l","o","o","r"," ","S","l","a","b">>)
        m1 == createIfcRelContainedInSpatialStructure(g.model, <<g.slab>>, ground_storey)
        f == create_slab(m1, house_length, house_width, wall_height, slab_thickness,
                         <<"F","i","r","s","t"," ","F","l","o","o","r"," ","S","l","a","b">>)
        r == create_slab(f.model, house_length, house_width, 2 * wall_height,
                         slab_thickness, <<"R","o","o","f"," ","S","l","a","b">>)
    IN  createIfcRelContainedInSpatialStructure(r.model, <<f.slab, r.slab>>, first_storey)
\* lines 457-476: the three slabs
house_slabs(m, ground_storey, first_storey) ==
    LET ground_slab_z == 0
        g == create_slab(m, house_length, house_width, ground_slab_z, slab_thickness,
                         <<"G","r","o","u","n","d"," ","F","l","o","o","r"," ","S","l","a","b">>)
        m1 == createIfcRelContainedInSpatialStructure(g.model, <<g.slab>>, ground_storey)
        first_slab_z == wall_height
        f == create_slab(m1, house_length, house_width, first_slab_z, slab_thickness,
                         <<"F","i","r","s","t"," ","F","l","o","o","r"," ","S","l","a","b">>)
        m2 == createIfcRelContainedInSpatialStructure(f.model, <<f.slab>>, first_storey)
        roof_slab_z == 2 * wall_height
        r == create_slab(m2, house_length, house_width, roof_slab_z, slab_thickness,
                         <<"R","o","o","f"," ","S","l","a","b">>)
    IN  createIfcRelContainedInSpatialStructure(r.model, <<r.slab>>, first_storey)

\* lines 166-196: the walls of the two storeys and the model they are in
house_walls ==
    LET h == house_hierarchy
        g == storey_walls_loop(h.model, 1, <<>>, 0, h.ground_storey, <<>>)
        f == storey_walls_loop(g.model, 1, FirstFloorSuffix, wall_height,
                               h.first_storey, <<>>)
    IN  [model |-> f.model, ground_walls |-> g.walls, first_walls |-> f.walls]

\* create_small_house(): the model it returns; the windows, then the door,
\* then the slabs, each on the model the statements before it have built
create_small_house ==
    LET h == house_hierarchy
        all_walls == <<house_walls.ground_walls, house_walls.first_walls>>
    IN  CHOOSE house \in
            {house_slabs(d, h.ground_storey, h.first_storey) :
                d \in {house_door(w, house_walls.ground_walls, h.ground_storey) :
                    w \in {house_windows_loop(house_walls.model, 1, all_walls,
                                              h.ground_storey, h.first_storey)}}} : TRUE

(* ---------------- create_test_ifc_with_window (test_ifc_window.py) ----- *)
\* window parameters, in millimetres as the script writes them
window_params ==
    [name |-> TestWindow, width |-> 1000 * 1000, depth |-> 150 * 1000,
     height |-> 1200 * 1000, offset_x |-> 1600 * 1000, offset_y |-> 25 * 1000,
     offset_z |-> 1200 * 1000]
\* to_m = lambda v_mm: float(v_mm) / 1000.0
to_m(v_mm) ==
    v_mm \div 1000

test_opening_placement_at_origin ==
    createIfcLocalPlacement(world_placement,
        createIfcAxis2Placement3D(world_origin, Omitted, Omitted))
\* lines 335-343: the placement of the opening
test_opening_placement ==
    LET opening_point == <<to_m(window_params.offset_x), to_m(window_params.offset_y),
                           to_m(window_params.offset_z)>>
    IN  createIfcLocalPlacement(world_placement,
            createIfcAxis2Placement3D(opening_point, Omitted, Omitted))

\* create_test_ifc_with_window(): the model it builds
create_test_ifc_with_window ==
    LET m1 == createEntity(EmptyModel, IfcProject, TestProject, NoElevation,
                           Omitted, Omitted)
        project == Len(m1.ents)
        m2 == createEntity(m1, IfcSite, TestSite, NoElevation, world_placement, Omitted)
        site == Len(m2.ents)
        m3 == createEntity(m2, IfcBuilding, TestBuilding, NoElevation, world_placement,
                           Omitted)
        building == Len(m3.ents)
        m4 == createEntity(m3, IfcBuildingStorey, GroundFloor, <<0>>, world_placement,
                           Omitted)
        storey == Len(m4.ents)
        m5 == createIfcRelAggregates(m4, project, <<site>>)
        m6 == createIfcRelAggregates(m5, site, <<building>>)
        m7 == createIfcRelAggregates(m6, building, <<storey>>)
        m8 == createEntity(m7, IfcWall, TestWall, NoElevation, world_placement,
                           createIfcExtrudedAreaSolid(5000, 200, 3000))
        wall == Len(m8.ents)
        m9 == createIfcRelContainedInSpatialStructure(m8, <<wall>>, storey)
        window_point == <<to_m(window_params.offset_x), to_m(window_params.offset_y),
                          to_m(window_params.offset_z)>>
        window_placement ==
            createIfcLocalPlacement(world_placement,
                createIfcAxis2Placement3D(window_point, Omitted, Omitted))
        m10 == createEntity(m9, IfcWindow, window_params.name, NoElevation,
                            window_placement,
                            createIfcExtrudedAreaSolid(to_m(window_params.width),
                                                       to_m(window_params.depth),
                                                       to_m(window_params.height)))
        window == Len(m10.ents)
        m11 == createIfcRelContainedInSpatialStructure(m10, <<window>>, storey)
        opening_width == to_m(window_params.width) + 20
        opening_depth == 250
        m12 == createEntity(m11, IfcOpeningElement, WindowOpening, NoElevation,
                            test_opening_placement,
                            createIfcExtrudedAreaSolid(opening_width, opening_depth,
                                to_m(window_params.height) + 10))
        opening == Len(m12.ents)
        m13 == createIfcRelVoidsElement(m12, wall, opening)
        m14 == createIfcRelFillsElement(m13, opening, window)
        g1 == attach_new_pset([psets |-> <<>>, rels |-> <<>>], wall, Pset_WallCommon,
                  <<[Name |-> IsExternal, NominalValue |-> BoolValue("True")],
                    [Name |-> LoadBearing, NominalValue |-> BoolValue("False")]>>)
        g2 == attach_new_pset(g1, window, Pset_WindowCommon,
                  <<[Name |-> IsExternal, NominalValue |-> BoolValue("True")],
                    [Name |-> Reference,
                     NominalValue |-> [type |-> "IfcLabel", wrappedValue |-> "WIN-001"]]>>)
        g3 == attach_new_pset(g2, wall, CPset_Custom,
                  <<[Name |-> Graffitischutz, NominalValue |-> BoolValue("True")]>>)
        g4 == attach_new_pset(g3, window, CPSet_ReUse,
                  <<[Name |-> Reusable, NominalValue |-> BoolValue("False")]>>)
    IN  [m14 EXCEPT !.psets = g4.psets, !.rels = g4.rels]

(* ---------------- The generation scripts as operations ----------------- *)
\* calls of create_wall_with_proper_joins and create_slab in one behaviour
MaxBuildCalls == 1

\* coordinates of the wall end points
CoordInputs ==
    {0, 3000, 8000}
BaseHeightInputs ==
    {0, 3000}
SlabLengthInputs ==
    {6000, 8000}
SlabBaseInputs ==
    {0, 3000, 6000}

InitBuild ==
    /\ ents = <<>>
    /\ contRels = <<>>
    /\ psets = <<>>
    /\ rels = <<>>
    /\ aggRels = <<>>
    /\ voidRels = <<>>
    /\ fillRels = <<>>
    /\ ret = NoCall
    /\ ncalls = 0

\* the model m becomes the state
Install(m) ==
    /\ ents' = m.ents
    /\ contRels' = m.contRels
    /\ aggRels' = m.aggRels
    /\ voidRels' = m.voidRels
    /\ fillRels' = m.fillRels
    /\ psets' = m.psets
    /\ rels' = m.rels

\* create_wall_with_proper_joins(model, ..., start_x, start_y, end_x, end_y, ...)
Call_create_wall_with_proper_joins ==
    /\ ncalls < MaxBuildCalls
    /\ \E start_x \in CoordInputs, start_y \in CoordInputs, end_x \in CoordInputs,
          end_y \in CoordInputs, base_height \in BaseHeightInputs :
         \E r \in {create_wall_with_proper_joins(Model, start_x, start_y, end_x, end_y,
                                                 FrontWall, base_height, wall_height)} :
            /\ Install(r.model)
            /\ ret' = [NoCall EXCEPT !.op = "create_wall_with_proper_joins",
                                     !.entity = r.wall, !.ok = TRUE,
                                     !.args = <<start_x, start_y, end_x, end_y,
                                                base_height>>,
                                     !.value = [wall_length |-> r.wall_length,
                                                angle |-> r.angle]]
    /\ ncalls' = ncalls + 1

\* create_slab(model, ..., length, width, base_z, thickness, slab_name)
Call_create_slab ==
    /\ ncalls < MaxBuildCalls
    /\ \E length \in SlabLengthInputs, width \in SlabLengthInputs,
          base_z \in SlabBaseInputs :
         \E r \in {create_slab(Model, length, width, base_z, slab_thickness,
                               <<"G","r","o","u","n","d"," ","F","l","o","o","r"," ","S","l","a","b">>)} :
            /\ Install(r.model)
            /\ ret' = [NoCall EXCEPT !.op = "create_slab", !.entity = r.slab,
                                     !.ok = TRUE,
                                     !.args = <<length, width, base_z>>]
    /\ ncalls' = ncalls + 1

\* create_small_house(): starts from ifcopenshell.file()
Run_create_small_house ==
    /\ Install(create_small_house)
    /\ ret' = [NoCall EXCEPT !.op = "create_small_house", !.ok = TRUE]
    /\ UNCHANGED ncalls

\* create_test_ifc_with_window(): starts from ifcopenshell.file()
Run_create_test_ifc_with_window ==
    /\ Install(create_test_ifc_with_window)
    /\ ret' = [NoCall EXCEPT !.op = "create_test_ifc_with_window", !.ok = TRUE]
    /\ UNCHANGED ncalls

NextBuild ==
    \/ Call_create_wall_with_proper_joins
    \/ Call_create_slab
    \/ Run_create_small_house
    \/ Run_create_test_ifc_with_window

SpecBuild ==
    InitBuild /\ [][NextBuild]_vars

(* ---------------- FireSafetyConfig values (add_building_fire_info.py) -- *)
int(n) ==
    [py |-> "int", repr |-> n]
str(s) ==
    [py |-> "str", repr |-> s]

\* the table without the roof occupancy of the French standard
FIRE_SAFETY_VALUES_fr_without_roof ==
    [l \in Languages |->
        LET occupancy ==
              [storey_occupancy_basement |-> int("5"),
               storey_occupancy_ground |-> int("50"),
               storey_occupancy_upper |-> int("30")]
        IN [site_qss_level |-> str("QSS Level 3"),
            building_category |-> str("Medium-rise building"),
            building_vkf_category |-> str("Medium height building")] @@ occupancy
           @@ (IF l = "fr" THEN <<>> ELSE [storey_occupancy_roof |-> int("10")])]

\* FireSafetyConfig.FIRE_SAFETY_VALUES; the bytes of the source outside ASCII
\* (its umlauts are stored doubly encoded) are written "?"
FIRE_SAFETY_VALUES ==
    [l \in Languages |->
        LET occupancy ==
              [storey_occupancy_basement |-> int("5"),
               storey_occupancy_ground |-> int("50"),
               storey_occupancy_upper |-> int("30"),
               storey_occupancy_roof |-> int("10")]
        IN CASE l = "en" ->
                  [site_qss_level |-> str("QSS Level 3"),
                   building_category |-> str("Medium-rise building"),
                   building_vkf_category |-> str("Medium height building")] @@ occupancy
             [] l = "de" ->
                  [site_qss_level |-> str("QSS Stufe 3"),
                   building_category |-> str("Geb??ude mittlerer H??he"),
                   building_vkf_category |-> str("Geb??ude mittlerer H??he")] @@ occupancy
             [] l = "fr" ->
                  [site_qss_level |-> str("QSS Niveau 3"),
                   building_category |-> str("B??timent de hauteur moyenne"),
                   building_vkf_category |-> str("B??timent de hauteur moyenne")] @@ occupancy
             [] l = "ch" ->
                  [site_qss_level |-> str("QSS Stufe 3"),
                   building_category |-> str("Geb??udekategorie VKF"),
                   building_vkf_category |-> str("Geb??ude mittlerer H??he")] @@ occupancy]

\* f"storey_occupancy_{storey_type}"
storey_occupancy_key(storey_type) ==
    "storey_occupancy_" \o storey_type

\* str.title() on the results of classify_storey_type
title(storey_type) ==
    CASE storey_type = "basement" -> "Basement"
      [] storey_type = "ground" -> "Ground"
      [] storey_type = "roof" -> "Roof"
      [] storey_type = "upper" -> "Upper"

(* ---------------- BuildingFireSafetyManager, batch operations ---------- *)
\* add_site_fire_safety: the graph after the call and the returned bool
add_site_fire_safety(g, site, lang) ==
    LET fire_values == DictGet(FIRE_SAFETY_VALUES, lang, FIRE_SAFETY_VALUES["en"])
        r1 == add_fire_safety_property(g, site, <<"S","i","t","e","F","i","r","e","S","a","f","e","t","y","L","e","v","e","l">>,
                                       fire_values["site_qss_level"], "text", lang)
        r2 == add_fire_safety_property(r1.g, site, <<"S","i","t","e","S","a","f","e","t","y","C","l","a","s","s","i","f","i","c","a","t","i","o","n">>,
                                       str("QSS Certified"), "text", lang)
        success_count == (IF r1.ok THEN 1 ELSE 0) + (IF r2.ok THEN 1 ELSE 0)
    IN  [g |-> r2.g, ok |-> success_count > 0]

add_building_fire_safety(g, building, lang) ==
    LET fire_values == DictGet(FIRE_SAFETY_VALUES, lang, FIRE_SAFETY_VALUES["en"])
        r1 == add_fire_safety_property(g, building, <<"B","u","i","l","d","i","n","g","F","i","r","e","C","a","t","e","g","o","r","y">>,
                                       fire_values["building_vkf_category"], "text", lang)
        r2 == add_fire_safety_property(r1.g, building, <<"B","u","i","l","d","i","n","g","H","e","i","g","h","t","C","a","t","e","g","o","r","y">>,
                                       fire_values["building_category"], "text", lang)
        r3 == add_fire_safety_property(r2.g, building, <<"F","i","r","e","S","a","f","e","t","y","C","o","m","p","l","i","a","n","c","e">>,
                                       str("VKF Standards Compliant"), "text", lang)
        success_count == (IF r1.ok THEN 1 ELSE 0) + (IF r2.ok THEN 1 ELSE 0)
                         + (IF r3.ok THEN 1 ELSE 0)
    IN  [g |-> r3.g, ok |-> success_count > 0]

add_storey_fire_safety(g, storey, lang) ==
    LET fire_values == DictGet(FIRE_SAFETY_VALUES, lang, FIRE_SAFETY_VALUES["en"])
        storey_type == classify_storey_type(storey)
        occupancy == fire_values[storey_occupancy_key(storey_type)]
        r1 == add_fire_safety_property(g, storey, MaximumOccupancy, occupancy,
                                       "integer", lang)
        storey_safety_class == str("Storey " \o title(storey_type) \o " - Fire Compartment")
        r2 == add_fire_safety_property(r1.g, storey, StoreyFireClassification,
                                       storey_safety_class, "text", lang)
        escape_routes == IF storey_type = "ground" THEN int("2") ELSE int("1")
        r3 == add_fire_safety_property(r2.g, storey, EscapeRoutesCount, escape_routes,
                                       "integer", lang)
        success_count == (IF r1.ok THEN 1 ELSE 0) + (IF r2.ok THEN 1 ELSE 0)
                         + (IF r3.ok THEN 1 ELSE 0)
    IN  [g |-> r3.g, ok |-> success_count > 0]

\* the three `for` loops of process_all_building_entities, one after the
\* other: `todo` lists the sites, then the buildings, then the storeys
RECURSIVE building_entities_loop(_, _, _, _)
building_entities_loop(g, todo, results, lang) ==
    IF todo = <<>> THEN [g |-> g, results |-> results]
    ELSE LET entity == Head(todo)
             t == ents[entity].type
             r == IF t = IfcSite THEN add_site_fire_safety(g, entity, lang)
                  ELSE IF t = IfcBuilding THEN add_building_fire_safety(g, entity, lang)
                  ELSE add_storey_fire_safety(g, entity, lang)
             key == IF t = IfcSite THEN "sites"
                    ELSE IF t = IfcBuilding THEN "buildings" ELSE "storeys"
             \* `total_properties += 1` for a site, `+= 3` for a building or storey
             n == IF t = IfcSite THEN 1 ELSE 3
         IN  IF r.ok
             THEN building_entities_loop(r.g, Tail(todo),
                      [results EXCEPT ![key] = @ + 1, !.total_properties = @ + n], lang)
             ELSE building_entities_loop(r.g, Tail(todo), results, lang)

process_all_building_entities(g, lang) ==
    building_entities_loop(g,
        by_type(IfcSite) \o by_type(IfcBuilding) \o by_type(IfcBuildingStorey),
        [sites |-> 0, buildings |-> 0, storeys |-> 0, total_properties |-> 0], lang)

(* ---------------- The two batch scripts on whole models ---------------- *)
\* the models the batch scripts are run on: the two built models, the input
\* entities with the input graphs, and the input entities with a wall whose
\* Pset_WallCommon has no readable HasProperties and a storey whose
\* Pset_BuildingCommon has none, without and with a property set without a
\* Name on the second wall
BatchModels ==
    LET unreadable ==
          [psets |-> <<[Name |-> Pset_WallCommon, HasProperties |-> NoHasProperties],
                       [Name |-> Pset_BuildingCommon, HasProperties |-> NoHasProperties]>>,
           rels |-> <<[RelatedObjects |-> <<3>>, RelatingPropertyDefinition |-> 1],
                      [RelatedObjects |-> <<2>>, RelatingPropertyDefinition |-> 2]>>]
        unreadable_unnamed ==
          [psets |-> Append(unreadable.psets,
                            [Name |-> None, HasProperties |-> WallCommonProps]),
           rels |-> Append(unreadable.rels,
                           [RelatedObjects |-> <<4>>, RelatingPropertyDefinition |-> 3])]
    IN  {create_small_house, create_test_ifc_with_window}
        \cup {[EmptyModel EXCEPT !.ents = InputEnts, !.contRels = InputContRels,
                                 !.psets = g.psets, !.rels = g.rels] :
                 g \in InputGraphs \cup {unreadable, unreadable_unnamed}}

InitBatch ==
    /\ \E m \in BatchModels :
          /\ ents = m.ents
          /\ contRels = m.contRels
          /\ aggRels = m.aggRels
          /\ voidRels = m.voidRels
          /\ fillRels = m.fillRels
          /\ psets = m.psets
          /\ rels = m.rels
    /\ ret = NoCall
    /\ ncalls = 0

\* BuildingFireSafetyManager.process_all_building_entities(), one whole run
Run_process_all_building_entities ==
    /\ ncalls < MaxRuns
    /\ \E language \in Languages :
         \E r \in {process_all_building_entities(Graph, language)} :
            /\ psets' = r.g.psets
            /\ rels' = r.g.rels
            /\ ret' = [NoCall EXCEPT !.op = "process_all_building_entities",
                          !.ok = TRUE, !.results = r.results, !.pre = Graph]
    /\ ncalls' = ncalls + 1
    /\ UNCHANGED <<aggRels, voidRels, fillRels, ents, contRels>>

NextBatch ==
    \/ Run_process_all_elements
    \/ Run_process_all_building_entities

SpecBatch ==
    InitBatch /\ [][NextBatch]_vars

(* ---------------- Property sets: claims C1 - C4 ------------------------ *)
\* relations of entity e, in graph g, that attach a property set named `name`
AttachedNamed(g, e, name) ==
    SelectSeq(IsDefinedBy(g, e), LAMBDA r :
        g.psets[g.rels[r].RelatingPropertyDefinition].Name = name)

\* no entity of `es` has two relations attaching property sets of one name
NoDuplicateSetNames(g, es) ==
    \A e \in es : \A r1, r2 \in Range(IsDefinedBy(g, e)) :
        r1 # r2 => g.psets[g.rels[r1].RelatingPropertyDefinition].Name
                   # g.psets[g.rels[r2].RelatingPropertyDefinition].Name

\* the set name a call of `op` on entity e targets, under each language
TargetNames(op, e) ==
    IF op = "add_fire_rating_property"
    THEN {get_pset_name(ents[e].type, l) : l \in Languages}
    ELSE {safety_pset_name(ents[e].type, l) : l \in Languages}

\* from graph `pre` to graph `post`, a call on e either reused the attached set
\* named `name` or created one set of that name and one relation <<e>> -> set
ReuseOrCreate(pre, post, e, name) ==
    IF AttachedNamed(pre, e, name) # <<>>
    THEN /\ Len(post.psets) = Len(pre.psets)
         /\ post.rels = pre.rels
         /\ \A i \in 1..Len(pre.psets) :
              i # pre.rels[AttachedNamed(pre, e, name)[1]].RelatingPropertyDefinition
                 => post.psets[i] = pre.psets[i]
    ELSE /\ Len(post.psets) = Len(pre.psets) + 1
         /\ post.psets[Len(post.psets)].Name = name
         /\ \A i \in 1..Len(pre.psets) : post.psets[i] = pre.psets[i]
         /\ post.rels = Append(pre.rels,
                [RelatedObjects |-> <<e>>,
                 RelatingPropertyDefinition |-> Len(post.psets)])

AddOps ==
    {"add_fire_rating_property", "add_fire_safety_property"}

\* C1: from a model without duplicate set names, after any sequence of
\* add_fire_rating_property / add_fire_safety_property calls (and whole
\* process_all_elements runs) every entity has at most one property-set
\* relation per set name, and each call either reused the attached set of the
\* target name or created exactly one set and one relation to that entity.
C1_OnePerSetName ==
    /\ NoDuplicateSetNames(Graph, Entities)
    /\ ret.op \in AddOps =>
         \A name \in TargetNames(ret.op, ret.entity) :
            ReuseOrCreate(ret.pre, Graph, ret.entity, name)

\* C1 witness: a second call found the set of its target name attached and
\* reused it
C1_Witness ==
    /\ ncalls = 2
    /\ ret.op \in AddOps
    /\ \E name \in TargetNames(ret.op, ret.entity) :
         /\ AttachedNamed(ret.pre, ret.entity, name) # <<>>
         /\ Len(AttachedNamed(Graph, ret.entity, name)) = 1
    /\ Len(psets) = Len(ret.pre.psets)

\* C2: after add_property_sets_to_model no wall or window has two property
\* sets of the same name attached.
C2_NoDuplicateOnWallsAndWindows ==
    ret.op = "add_property_sets_to_model" =>
        NoDuplicateSetNames(Graph, Range(by_type(IfcWall)) \cup Range(by_type(IfcWindow)))

\* the properties of the set named `name` attached to e (<<>> when none)
PropertiesOf(g, e, name) ==
    IF AttachedNamed(g, e, name) = <<>> THEN <<>>
    ELSE g.psets[g.rels[AttachedNamed(g, e, name)[1]].RelatingPropertyDefinition].HasProperties

\* two successive successful add_fire_safety_property calls on one entity with
\* different property names: the step of the second call
C3_Step ==
    ( /\ ret.op = "add_fire_safety_property" /\ ret.ok
      /\ ret'.op = "add_fire_safety_property" /\ ret'.ok
      /\ ret'.entity = ret.entity
      /\ ret'.property_name # ret.property_name )
    => \A name \in TargetNames("add_fire_safety_property", ret.entity) :
          LET previous == PropertiesOf(ret.pre, ret.entity, name)
              after == [psets |-> psets', rels |-> rels']
              props == PropertiesOf(after, ret.entity, name)
          IN /\ Len(AttachedNamed(after, ret.entity, name)) = 1
             /\ Len(props) = Len(previous) + 2
             /\ SubSeq(props, 1, Len(previous)) = previous
             /\ props[Len(previous) + 1].Name = ret.property_name
             /\ props[Len(previous) + 2].Name = ret'.property_name

\* C3: two successful add_fire_safety_property calls on the same entity with
\* different property names leave exactly one set of the resolved name on the
\* entity, holding its previous content followed by the two new properties in
\* call order.
C3_TwoCallsOneSet ==
    [][C3_Step]_vars

\* C3 witness: the second of two such calls has returned; the set ends with the
\* two properties
C3_Witness ==
    /\ ncalls = 2
    /\ ret.op = "add_fire_safety_property" /\ ret.ok
    /\ \E name \in TargetNames(ret.op, ret.entity) :
         LET props == PropertiesOf(Graph, ret.entity, name)
             before == PropertiesOf(ret.pre, ret.entity, name)
         IN /\ Len(props) >= 2
            /\ props[Len(props)].Name = ret.property_name
            /\ before # <<>>
            /\ before[Len(before)].Name \in PropertyNameInputs \ {ret.property_name}

\* elements process_all_elements visits
ProcessedElements ==
    Range(Flatten([i \in 1..Len(element_types) |-> by_type(element_types[i])]))

\* the property set add_fire_rating_property uses for element e in graph g
\* (0 when the element has none of that name)
RatingSet(g, e) ==
    LET name == CHOOSE n \in TargetNames("add_fire_rating_property", e) : TRUE
    IN IF AttachedNamed(g, e, name) = <<>> THEN 0
       ELSE g.rels[AttachedNamed(g, e, name)[1]].RelatingPropertyDefinition

FireRatingCount(g, s) ==
    IF s = 0 \/ s > Len(g.psets) THEN 0
    ELSE Cardinality({i \in 1..Len(g.psets[s].HasProperties) :
                         g.psets[s].HasProperties[i].Name = FireRating})

SetsOf(e) ==
    {rels[r].RelatingPropertyDefinition : r \in Range(IsDefinedBy(Graph, e))}

\* e has a containment relation whose target is an entity of type T
ContainedIn(e, T) ==
    \E i \in 1..Len(contRels) :
        /\ e \in Range(contRels[i].RelatedElements)
        /\ contRels[i].RelatingStructure # 0
        /\ ents[contRels[i].RelatingStructure].type = T

\* an attached property set has a property whose name contains keyword k,
\* case-insensitively
HasPropertyNamed(e, k) ==
    \E s \in SetsOf(e) : \E i \in 1..Len(psets[s].HasProperties) :
        StrIn(k, lower(psets[s].HasProperties[i].Name))

\* an attached property set has itself a name that contains keyword k
HasSetNamed(e, k) ==
    \E s \in SetsOf(e) : psets[s].Name # None /\ StrIn(k, lower(psets[s].Name))

\* every attached property set has a name
AllSetsNamed(e) ==
    \A s \in SetsOf(e) : psets[s].Name # None

\* the last call classified a wall / a door
WallClassified ==
    \/ ret.op = "classify_wall"
    \/ ret.op = "get_element_classification" /\ ents[ret.entity].type = IfcWall
DoorClassified ==
    \/ ret.op = "classify_door"
    \/ ret.op = "get_element_classification" /\ ents[ret.entity].type = IfcDoor

C6_DoorRules ==
    (DoorClassified /\ AllSetsNamed(ret.entity)) =>
        ret.category =
            IF ContainedIn(ret.entity, IfcBuilding) THEN "external_door"
            ELSE IF \/ HasPropertyNamed(ret.entity, kw_fire)
                    \/ HasPropertyNamed(ret.entity, kw_brand) THEN "fire_door"
            ELSE "internal_door"

rez_de_chaussee ==
    lower(RezDeChaussee)

\* C8: classify_storey_type, first match wins: elevation < 0 basement; else
\* elevation == 0 or a ground-floor synonym in the name ground; else a roof
\* synonym in the name roof; else upper.
C8_StoreyRules ==
    ret.op = "classify_storey_type" =>
        LET name == IF ents[ret.entity].Name = None THEN <<>>
                    ELSE lower(ents[ret.entity].Name)
            elevation == IF ents[ret.entity].Elevation = <<>> THEN 0
                         ELSE ents[ret.entity].Elevation[1]
        IN ret.category =
             IF elevation < 0 THEN "basement"
             ELSE IF \/ elevation = 0
                     \/ \E k \in {kw_ground, kw_erdgeschoss, rez_de_chaussee} :
                           StrIn(k, name)
                  THEN "ground"
             ELSE IF \E k \in {kw_roof, kw_dach, kw_toit} : StrIn(k, name) THEN "roof"
             ELSE "upper"

FixedKinds ==
    {IfcSlab, IfcBeam, IfcColumn, IfcWindow, IfcStair, IfcStairFlight}

\* C9: get_element_classification maps slab, beam, column, window, stair and
\* stair flight to the category of the kind whatever the containment and the
\* property sets, and every type other than IfcWall, IfcDoor and those to
\* internal_wall.
C9_FixedKinds ==
    ret.op = "get_element_classification" =>
        LET t == ents[ret.entity].type
        IN /\ t = IfcSlab => ret.category = "slab"
           /\ t = IfcBeam => ret.category = "beam"
           /\ t = IfcColumn => ret.category = "column"
           /\ t = IfcWindow => ret.category = "window"
           /\ t \in {IfcStair, IfcStairFlight} => ret.category = "stair"
           /\ t \notin FixedKinds \cup {IfcWall, IfcDoor} => ret.category = "internal_wall"

\* C9 witness: a stair flight contained in the Building, carrying a property
\* set named after loads, was classified stair
C9_Witness ==
    /\ ret.op = "get_element_classification"
    /\ ents[ret.entity].type = IfcStairFlight
    /\ ContainedIn(ret.entity, IfcBuilding)
    /\ HasSetNamed(ret.entity, kw_load)
    /\ ret.category = "stair"

ClassifyOps ==
    {"get_element_classification", "classify_wall", "classify_door",
     "classify_storey_type"}

\* a step that is a classifier call
C10_Step ==
    ret'.op \in ClassifyOps =>
        /\ UNCHANGED <<ents, contRels, psets, rels>>
        /\ (ret.op = ret'.op /\ ret.entity = ret'.entity)
              => ret'.category = ret.category

WallCall ==
    ret.op = "create_wall_with_proper_joins"
SegStart ==
    <<ret.args[1], ret.args[2]>>
SegEnd ==
    <<ret.args[3], ret.args[4]>>
Vertical ==
    SegStart[1] = SegEnd[1]
Horizontal ==
    SegStart[2] = SegEnd[2]
\* the x axis of the placement of entity e
RefDirectionOf(e) ==
    ents[e].ObjectPlacement.RelativePlacement.RefDirection
LocationOf(e) ==
    ents[e].ObjectPlacement.RelativePlacement.Location

\* C11: for an axis-aligned segment with start # end the wall gets a positive
\* length and the angle +90 (vertical, end.y > start.y), -90 (vertical,
\* end.y < start.y), 0 (horizontal, end.x > start.x) or 180 (horizontal,
\* end.x < start.x); the x axis of the wall points from start to end.
C11_AxisAlignedFrame ==
    (WallCall /\ (Vertical \/ Horizontal) /\ SegStart # SegEnd) =>
        /\ ret.value.wall_length > 0
        /\ ents[ret.entity].Representation.XDim = ret.value.wall_length
        /\ ret.value.angle \in {0, 90, 180, 0 - 90}
        /\ (Vertical /\ SegEnd[2] > SegStart[2]) =>
              (ret.value.angle = 90 /\ RefDirectionOf(ret.entity) = <<0, 1, 0>>)
        /\ (Vertical /\ SegEnd[2] < SegStart[2]) =>
              (ret.value.angle = 0 - 90 /\ RefDirectionOf(ret.entity) = <<0, 0 - 1, 0>>)
        /\ (Horizontal /\ SegEnd[1] > SegStart[1]) =>
              (ret.value.angle = 0 /\ RefDirectionOf(ret.entity) = <<1, 0, 0>>)
        /\ (Horizontal /\ SegEnd[1] < SegStart[1]) =>
              (ret.value.angle = 180 /\ RefDirectionOf(ret.entity) = <<0 - 1, 0, 0>>)
C11_Witness ==
    /\ WallCall
    /\ Vertical
    /\ SegEnd[2] < SegStart[2]
    /\ ret.value.angle = 0 - 90
    /\ ret.value.wall_length = 8000

\* C12: creating a wall from a zero-length segment (start = end) fails and
\* creates no wall entity.
C12_ZeroLengthFails ==
    (WallCall /\ SegStart = SegEnd) =>
        /\ ~ret.ok
        /\ ret.entity = 0
        /\ \A e \in 1..Len(ents) : ents[e].type # IfcWall

\* C13: for a segment that is not axis-aligned the call raises nothing and
\* uses the horizontal convention: angle 0 when end.x > start.x and 180 when
\* end.x < start.x, whatever the direction in y.
C13_ObliqueUsesHorizontalRule ==
    (WallCall /\ ~Vertical /\ ~Horizontal) =>
        /\ ret.ok
        /\ ents[ret.entity].type = IfcWall
        /\ ret.value.angle = (IF SegEnd[1] > SegStart[1] THEN 0 ELSE 180)
        /\ RefDirectionOf(ret.entity) =
              (IF SegEnd[1] > SegStart[1] THEN <<1, 0, 0>> ELSE <<0 - 1, 0, 0>>)
C13_Witness ==
    /\ WallCall
    /\ SegStart = <<8000, 0>>
    /\ SegEnd = <<3000, 8000>>
    /\ ret.value.angle = 180
    /\ ret.value.wall_length > 8000

\* C14: every slab is placed at (length/2, width/2, base_z), the midpoint of
\* its footprint at the given elevation, with the default axes.
SlabAtMidpoint(e, length, width) ==
    /\ 2 * LocationOf(e)[1] = length
    /\ 2 * LocationOf(e)[2] = width
    /\ ents[e].ObjectPlacement.RelativePlacement.Axis = Omitted
    /\ ents[e].ObjectPlacement.RelativePlacement.RefDirection = Omitted
    /\ ents[e].ObjectPlacement.PlacementRelTo = world_placement
C14_SlabAtMidpoint ==
    /\ ret.op = "create_slab" =>
          /\ ents[ret.entity].type = IfcSlab
          /\ SlabAtMidpoint(ret.entity, ret.args[1], ret.args[2])
          /\ LocationOf(ret.entity)[3] = ret.args[3]
    /\ \A e \in 1..Len(ents) :
          ents[e].type = IfcSlab =>
             SlabAtMidpoint(e, ents[e].Representation.XDim, ents[e].Representation.YDim)
    /\ ret.op = "create_small_house" =>
          {LocationOf(e) : e \in {i \in 1..Len(ents) : ents[i].type = IfcSlab}}
             = {<<4000, 3000, 0>>, <<4000, 3000, 3000>>, <<4000, 3000, 6000>>}
C14_Witness ==
    /\ ret.op = "create_slab"
    /\ ret.args = <<8000, 6000, 3000>>
    /\ LocationOf(ret.entity) = <<4000, 3000, 3000>>

(* ---------------- The models the generation scripts build -------------- *)
Built ==
    ret.op \in {"create_small_house", "create_test_ifc_with_window"}
OfType(T) ==
    {e \in 1..Len(ents) : ents[e].type = T}
\* aggregation relations that list e among their children
ParentRels(e) ==
    {i \in 1..Len(aggRels) : e \in Range(aggRels[i].RelatedObjects)}

\* C15: a built model has exactly one Project, one Site and one Building and
\* exactly three aggregation relations, Project->[Site], Site->[Building] and
\* Building->[all storeys in creation order]; every Site, Building and Storey
\* is the child of exactly one aggregation relation.
C15_OneHierarchy ==
    Built =>
        /\ Cardinality(OfType(IfcProject)) = 1
        /\ Cardinality(OfType(IfcSite)) = 1
        /\ Cardinality(OfType(IfcBuilding)) = 1
        /\ Len(aggRels) = 3
        /\ aggRels[1] = [RelatingObject |-> by_type(IfcProject)[1],
                         RelatedObjects |-> by_type(IfcSite)]
        /\ aggRels[2] = [RelatingObject |-> by_type(IfcSite)[1],
                         RelatedObjects |-> by_type(IfcBuilding)]
        /\ aggRels[3] = [RelatingObject |-> by_type(IfcBuilding)[1],
                         RelatedObjects |-> by_type(IfcBuildingStorey)]
        /\ \A e \in OfType(IfcSite) \cup OfType(IfcBuilding) \cup OfType(IfcBuildingStorey) :
              Cardinality(ParentRels(e)) = 1
C15_Witness ==
    /\ ret.op = "create_small_house"
    /\ Len(by_type(IfcBuildingStorey)) = 2
    /\ aggRels[3].RelatedObjects = by_type(IfcBuildingStorey)

\* C16: in the model create_small_house builds, every wall, slab, window and
\* door is referenced by exactly one containment relation, whose element list
\* has exactly one element and whose target is a storey.
HouseElements ==
    OfType(IfcWall) \cup OfType(IfcSlab) \cup OfType(IfcWindow) \cup OfType(IfcDoor)
C16_OneContainmentEach ==
    ret.op = "create_small_house" =>
        \A e \in HouseElements :
            /\ Len(ContainedInStructure(e)) = 1
            /\ contRels[ContainedInStructure(e)[1]].RelatedElements = <<e>>
            /\ ents[contRels[ContainedInStructure(e)[1]].RelatingStructure].type
                  = IfcBuildingStorey
C16_Witness ==
    /\ ret.op = "create_small_house"
    /\ Cardinality(OfType(IfcWall)) = 8
    /\ Cardinality(OfType(IfcWindow)) = 6
    /\ Cardinality(OfType(IfcDoor)) = 1
    /\ Cardinality(OfType(IfcSlab)) = 3
    /\ Len(contRels) = 18

(* ---------------- Openings --------------------------------------------- *)
\* the hosts of opening o (Voids) and its fillers (Fills)
HostsOf(o) ==
    {voidRels[i].RelatingBuildingElement :
        i \in {j \in 1..Len(voidRels) : voidRels[j].RelatedOpeningElement = o}}
FillersOf(o) ==
    {fillRels[i].RelatedBuildingElement :
        i \in {j \in 1..Len(fillRels) : fillRels[j].RelatingOpeningElement = o}}
Shape(e) ==
    ents[e].Representation

\* C17: every opening has plan width = filler width + 2 cm, plan depth = host
\* wall thickness + 5 cm and extrusion height = filler height + 1 cm; a window
\* of width 1.5 in a wall of thickness 0.2 gets an opening 1.52 by 0.25.
C17_OpeningMargins ==
    \A o \in OfType(IfcOpeningElement) :
        /\ \A p \in FillersOf(o) :
              /\ Shape(o).XDim = Shape(p).XDim + 20
              /\ Shape(o).Depth = Shape(p).Depth + 10
              /\ (Shape(p).XDim = 1500 /\ \E h \in HostsOf(o) : Shape(h).YDim = 200) =>
                    (Shape(o).XDim = 1520 /\ Shape(o).YDim = 250)
        /\ \A h \in HostsOf(o) : Shape(o).YDim = Shape(h).YDim + 50
C17_Witness ==
    /\ ret.op = "create_small_house"
    /\ Cardinality(OfType(IfcOpeningElement)) = 7
    /\ \E o \in OfType(IfcOpeningElement) :
          /\ Shape(o) = [XDim |-> 1520, YDim |-> 250, Depth |-> 1210]
          /\ \E p \in FillersOf(o) : Shape(p).XDim = 1500
          /\ \E h \in HostsOf(o) : Shape(h).YDim = 200
    /\ \E o \in OfType(IfcOpeningElement) :
          Shape(o) = [XDim |-> 920, YDim |-> 250, Depth |-> 2110]

\* C18: every opening strictly exceeds the window or door that fills it in
\* plan width, in plan depth and in extrusion height.
C18_OpeningStrictlyLarger ==
    \A o \in OfType(IfcOpeningElement) :
        \A p \in FillersOf(o) :
            /\ Shape(o).XDim > Shape(p).XDim
            /\ Shape(o).YDim > Shape(p).YDim
            /\ Shape(o).Depth > Shape(p).Depth

\* the axis placement of entity e (a wall of the test script is placed by the
\* world placement itself, every other product by a local placement)
FrameOf(e) ==
    IF "RelativePlacement" \in DOMAIN ents[e].ObjectPlacement
    THEN ents[e].ObjectPlacement.RelativePlacement
    ELSE ents[e].ObjectPlacement
XAxisOf(e) ==
    IF FrameOf(e).RefDirection = Omitted THEN world_x ELSE FrameOf(e).RefDirection
Abs(x) ==
    IF x < 0 THEN 0 - x ELSE x
\* point p lies in the box of wall h: within half its length along its axis,
\* half its thickness across it, and its height above its base
InWall(p, h) ==
    LET c == FrameOf(h).Location
        d == XAxisOf(h)
        along == (p[1] - c[1]) * d[1] + (p[2] - c[2]) * d[2]
        across == (p[2] - c[2]) * d[1] - (p[1] - c[1]) * d[2]
    IN  /\ 2 * Abs(along) <= Shape(h).XDim
        /\ 2 * Abs(across) <= Shape(h).YDim
        /\ c[3] <= p[3]
        /\ p[3] <= c[3] + Shape(h).Depth
StoreysOf(e) ==
    {contRels[i].RelatingStructure : i \in Range(ContainedInStructure(e))}

\* C19: in a built model each opening has exactly one Voids relation and
\* exactly one Fills relation; no window or door fills two openings; the host
\* is the wall the opening was cut into (the opening lies in that wall, which
\* stands on the storey of the filler) and the filler is a window or a door.
C19_OneVoidOneFill ==
    Built =>
        /\ \A o \in OfType(IfcOpeningElement) :
              /\ Cardinality({i \in 1..Len(voidRels) :
                                voidRels[i].RelatedOpeningElement = o}) = 1
              /\ Cardinality({i \in 1..Len(fillRels) :
                                fillRels[i].RelatingOpeningElement = o}) = 1
              /\ \A h \in HostsOf(o) :
                    /\ ents[h].type = IfcWall
                    /\ InWall(FrameOf(o).Location, h)
                    /\ \A p \in FillersOf(o) : StoreysOf(p) = StoreysOf(h)
              /\ \A p \in FillersOf(o) : ents[p].type \in {IfcWindow, IfcDoor}
        /\ \A p \in OfType(IfcWindow) \cup OfType(IfcDoor) :
              Cardinality({i \in 1..Len(fillRels) :
                             fillRels[i].RelatedBuildingElement = p}) = 1
        /\ \A i \in 1..Len(voidRels) :
              ents[voidRels[i].RelatedOpeningElement].type = IfcOpeningElement
        /\ \A i \in 1..Len(fillRels) :
              ents[fillRels[i].RelatingOpeningElement].type = IfcOpeningElement
C19_Witness ==
    /\ ret.op = "create_small_house"
    /\ Len(voidRels) = 7
    /\ Len(fillRels) = 7
    /\ \E o \in OfType(IfcOpeningElement) :
          /\ \E p \in FillersOf(o) : ents[p].type = IfcDoor
          /\ \E h \in HostsOf(o) : ents[h].Name = RightWall

\* C20: every opening has the placement (position and orientation) of the
\* window or door that fills it.
C20_OpeningPlacedAsFiller ==
    \A o \in OfType(IfcOpeningElement) :
        \A p \in FillersOf(o) : ents[o].ObjectPlacement = ents[p].ObjectPlacement
C20_Witness ==
    /\ ret.op = "create_test_ifc_with_window"
    /\ \E o \in OfType(IfcOpeningElement) :
          /\ FrameOf(o).Location = <<1600, 25, 1200>>
          /\ \E p \in FillersOf(o) : ents[p].Name = TestWindow

(* ======================================================================= *)
(* Claims C21 to C30                                                       *)
(* ======================================================================= *)

\* C21: for each of the four standards the tables hold an entry for every
\* category a classifier returns: after a get_element_classification call that
\* returned, the category is a key of FIRE_RATING_VALUES of every language and
\* the rating is that entry, not the "30 min" fallback; after a
\* classify_storey_type call, storey_occupancy_<type> is a key of
\* FIRE_SAFETY_VALUES of every language.
C21_TablesComplete ==
    /\ (ret.op = "get_element_classification" /\ ret.ok) =>
          \A l \in Languages :
             /\ ret.category \in DOMAIN FIRE_RATING_VALUES[l]
             /\ get_element_classification(Graph, ret.entity, l)[2]
                   = FIRE_RATING_VALUES[l][ret.category]
             /\ get_element_classification(Graph, ret.entity, l)[2] # "30 min"
    /\ ret.op = "classify_storey_type" =>
          \A l \in Languages :
             storey_occupancy_key(ret.category) \in DOMAIN FIRE_SAFETY_VALUES[l]

\* a storey was classified as a roof storey
C21_Witness ==
    /\ ret.op = "classify_storey_type"
    /\ ret.category = "roof"
    /\ storey_occupancy_key(ret.category) = "storey_occupancy_roof"

\* names of the property sets attached to entity e in graph g, in relation order
SetNames(g, e) ==
    [i \in 1..Len(IsDefinedBy(g, e)) |->
        g.psets[g.rels[IsDefinedBy(g, e)[i]].RelatingPropertyDefinition].Name]

\* C22: the set name chosen for an entity does not depend on the language: the
\* last add_fire_rating_property / add_fire_safety_property call, made from the
\* same model on the same entity under any of en, de, fr, ch (and with any
\* value), leaves the entity with the same sequence of set names as the call
\* that was made, and the name resolved for the entity's type is the one
\* resolved under en.
C22_SetNameIndependentOfLanguage ==
    /\ ret.op = "add_fire_rating_property" =>
          \A l \in Languages, fire_rating \in RatingInputs :
             /\ SetNames(add_fire_rating_property(ret.pre, ret.entity, fire_rating, l).g,
                         ret.entity) = SetNames(Graph, ret.entity)
             /\ get_pset_name(ents[ret.entity].type, l)
                   = get_pset_name(ents[ret.entity].type, "en")
    /\ ret.op = "add_fire_safety_property" =>
          \A l \in Languages, v \in ValueInputs :
             /\ SetNames(add_fire_safety_property(ret.pre, ret.entity, ret.property_name,
                                                  v[1], v[2], l).g,
                         ret.entity) = SetNames(Graph, ret.entity)
             /\ safety_pset_name(ents[ret.entity].type, l)
                   = safety_pset_name(ents[ret.entity].type, "en")

\* a call created a set for a wall that had none of the target name
C22_Witness ==
    /\ ret.op = "add_fire_rating_property"
    /\ ents[ret.entity].type = IfcWall
    /\ Len(psets) = Len(ret.pre.psets) + 1
    /\ psets[Len(psets)].Name = Pset_WallCommon

\* C23: an add_fire_safety_property call whose value cannot be converted to
\* the requested kind returns False; it appends no property (every set that
\* existed is as it was) and does not roll back: when the entity had no set of
\* the target name, the set and the relation the call created remain, the set
\* being empty; otherwise the model is unchanged.
C23_FailedConversionKeepsEmptySet ==
    ret.op = "add_fire_safety_property" =>
       LET entity == ret.entity
           pset_name == safety_pset_name(ents[entity].type, "en")
           had == \E i \in 1..Len(SetNames(ret.pre, entity)) :
                     SetNames(ret.pre, entity)[i] = pset_name
       IN /\ \A l \in Languages, v \in ValueInputs :
                ~Convertible(v[2], v[1]) =>
                   ~add_fire_safety_property(ret.pre, entity, ret.property_name,
                                             v[1], v[2], l).ok
          /\ ~ret.ok =>
                /\ SubSeq(psets, 1, Len(ret.pre.psets)) = ret.pre.psets
                /\ IF had THEN Graph = ret.pre
                   ELSE /\ psets = Append(ret.pre.psets,
                                          [Name |-> pset_name, HasProperties |-> <<>>])
                        /\ rels = Append(ret.pre.rels,
                                         [RelatedObjects |-> <<entity>>,
                                          RelatingPropertyDefinition |-> Len(psets)])

\* a failed call left a new, empty set attached to the storey
C23_Witness ==
    /\ ret.op = "add_fire_safety_property"
    /\ ~ret.ok
    /\ ents[ret.entity].type = IfcBuildingStorey
    /\ Len(psets) = Len(ret.pre.psets) + 1
    /\ psets[Len(psets)].HasProperties = <<>>
    /\ rels[Len(rels)].RelatedObjects = <<ret.entity>>

\* C25: add_fire_safety_property selects the set name by entity kind: after a
\* call the entity carries a set named Pset_ProjectCommon for a project,
\* Pset_SiteCommon for a site, Pset_BuildingStoreyCommon for a building storey
\* and Pset_BuildingCommon for a building (and for any other kind).
C25_SetNameByKind ==
    ret.op = "add_fire_safety_property" =>
       LET t == ents[ret.entity].type
           expected == IF t = IfcProject THEN Pset_ProjectCommon
                       ELSE IF t = IfcSite THEN Pset_SiteCommon
                       ELSE IF t = IfcBuildingStorey THEN Pset_BuildingStoreyCommon
                       ELSE Pset_BuildingCommon
       IN \E i \in 1..Len(SetNames(Graph, ret.entity)) :
             SetNames(Graph, ret.entity)[i] = expected

\* C29: get_element_classification is total: every call returns a category
\* and a rating, also for a wall or door with an attached property definition
\* whose Name is absent.
C29_ClassificationTotal ==
    ret.op = "get_element_classification" =>
       /\ ret.ok
       /\ ret.category \in DOMAIN FIRE_RATING_VALUES["en"]
       /\ \A l \in Languages :
             get_element_classification(Graph, ret.entity, l)[2] # "AttributeError"

\* C30: in the model built by create_small_house every window and door fills
\* an opening, the wall that opening is cut into is contained in the same
\* single storey as the window or door, and the base height of that wall is
\* the elevation of that storey (elevations are in metres, heights in
\* thousandths).
C30_HostWallOnFillerStorey ==
    ret.op = "create_small_house" =>
       \A p \in OfType(IfcWindow) \cup OfType(IfcDoor) :
          /\ \E o \in OfType(IfcOpeningElement) : p \in FillersOf(o) /\ HostsOf(o) # {}
          /\ Cardinality(StoreysOf(p)) = 1
          /\ \A o \in OfType(IfcOpeningElement) :
                p \in FillersOf(o) =>
                   \A h \in HostsOf(o) :
                      /\ StoreysOf(h) = StoreysOf(p)
                      /\ \A s \in StoreysOf(p) :
                            /\ ents[s].type = IfcBuildingStorey
                            /\ ents[s].Elevation # NoElevation
                            /\ FrameOf(h).Location[3] = 1000 * ents[s].Elevation[1]

\* the house has a window on the first floor, whose host wall stands at 3.0
C30_Witness ==
    /\ ret.op = "create_small_house"
    /\ \E p \in OfType(IfcWindow), o \in OfType(IfcOpeningElement) :
          /\ p \in FillersOf(o)
          /\ \E h \in HostsOf(o) :
                /\ FrameOf(h).Location[3] = wall_height
                /\ \E s \in StoreysOf(h) : ents[s].Elevation = <<3>>
    /\ OfType(IfcDoor) # {}

\* number of properties held by the property sets of graph g
PropertyCount(g) ==
    Len(Flatten([i \in 1..Len(g.psets) |->
                    IF g.psets[i].HasProperties = NoHasProperties THEN <<>>
                    ELSE g.psets[i].HasProperties]))
\* entities of type T with an attached set that holds more properties in the
\* current graph than it held in graph g
Received(T, g) ==
    {e \in OfType(T) :
        \E i \in 1..Len(IsDefinedBy(Graph, e)) :
           LET s == rels[IsDefinedBy(Graph, e)[i]].RelatingPropertyDefinition
           IN  /\ psets[s].HasProperties # NoHasProperties
               /\ Len(psets[s].HasProperties) >
                     (IF s <= Len(g.psets) THEN Len(g.psets[s].HasProperties) ELSE 0)}

\* C26: after process_all_building_entities the total_properties counter is
\* the number of properties the run appended to property sets, and the sites,
\* buildings and storeys counters are the numbers of sites, buildings and
\* storeys that received at least one property.
C26_CountersMatchModel ==
    ret.op = "process_all_building_entities" =>
       /\ ret.results.total_properties = PropertyCount(Graph) - PropertyCount(ret.pre)
       /\ ret.results.sites = Cardinality(Received(IfcSite, ret.pre))
       /\ ret.results.buildings = Cardinality(Received(IfcBuilding, ret.pre))
       /\ ret.results.storeys = Cardinality(Received(IfcBuildingStorey, ret.pre))

\* C28: annotation never changes classification: a run of
\* process_all_elements or process_all_building_entities leaves the category
\* of every wall and door (or the exception its classifier raises) and the
\* type of every storey as they were before the run, so after any number of
\* runs they are as on the original model.
C28_Step ==
    /\ \A e \in OfType(IfcWall) \cup OfType(IfcDoor) :
          classification_of(Graph, e)' = classification_of(Graph, e)
    /\ \A s \in OfType(IfcBuildingStorey) :
          classify_storey_type(s)' = classify_storey_type(s)
TargetUnreadable(g, e) ==
    /\ RatingSet(g, e) # 0
    /\ g.psets[RatingSet(g, e)].HasProperties = NoHasProperties

\* C24: in a run of process_all_elements in which the rating could not be
\* added to some element, the batch is not stopped: the run returns, every
\* element whose set could be written received its rating, and processed +
\* errors is the number of elements of the eight kinds.
C24_FailureDoesNotStopBatch ==
    (ret.op = "process_all_elements" /\ ret.results.errors > 0) =>
       /\ ret.ok
       /\ ret.results.processed + ret.results.errors = Cardinality(ProcessedElements)
       /\ ret.results.errors
             = Cardinality({e \in ProcessedElements : TargetUnreadable(ret.pre, e)})
       /\ \A e \in ProcessedElements :
             \/ TargetUnreadable(ret.pre, e)
             \/ FireRatingCount(Graph, RatingSet(Graph, e))
                   > FireRatingCount(ret.pre, RatingSet(Graph, e))

\* the values of the FireRating entries of set s of graph g, in list order
FireRatingValues(g, s) ==
    LET held == IF g.psets[s].HasProperties = NoHasProperties THEN <<>>
                ELSE SelectSeq(g.psets[s].HasProperties, LAMBDA p : p.Name = FireRating)
    IN  [i \in 1..Len(held) |-> held[i].NominalValue.wrappedValue]
\* elements that set s is attached to
AttachedTo(s) ==
    {e \in Entities : \E r \in Range(IsDefinedBy(Graph, e)) :
                         rels[r].RelatingPropertyDefinition = s}
\* graph g holds no FireRating entry
NoFireRating(g) ==
    \A s \in 1..Len(g.psets) : FireRatingValues(g, s) = <<>>

\* C27: after one run of process_all_elements on a model without
\* FireRating entries every set that received a rating holds exactly one
\* FireRating entry, whose value is the rating of the classification of every
\* element the set is attached to.
C27_OneEntryPerSet ==
    (ret.op = "process_all_elements" /\ NoFireRating(ret.pre)) =>
       \E l \in Languages :
          \A s \in 1..Len(psets) :
             FireRatingValues(Graph, s) # <<>> =>
                /\ Len(FireRatingValues(Graph, s)) = 1
                /\ \A e \in AttachedTo(s) :
                      FireRatingValues(Graph, s)[1]
                         = get_element_classification(ret.pre, e, l)[2]
=============================================================================
